---- MODULE Spec2Model ----
(***************************************************************************)
(* Model of the mapping-and-payload-construction engine of auto-api-pusher *)
(* (src/utils/dataUtils.ts: castValue, setDeep, constructPayload).         *)
(*                                                                         *)
(* JavaScript strings are sequences of one-character strings, so that      *)
(* split, trim and the bracket-stripping regular expression are computed   *)
(* and not assumed.  JavaScript values are tagged records [t, v]; an array *)
(* carries a third field p, its non-index properties.  Objects are         *)
(* functions from keys (character sequences) to values: key order is not   *)
(* modelled, two objects are equal when they are structurally identical.   *)
(***************************************************************************)
EXTENDS Integers, Sequences, FiniteSets, TLC

(*************************** strings ***************************************)

\* String.prototype.trim over the model's alphabet, whose only white space
\* is the space character.
RECURSIVE TrimLeft(_)
TrimLeft(s) ==
    IF s # <<>> /\ Head(s) = " " THEN TrimLeft(Tail(s)) ELSE s

RECURSIVE TrimRight(_)
TrimRight(s) ==
    IF s # <<>> /\ s[Len(s)] = " " THEN TrimRight(SubSeq(s, 1, Len(s) - 1)) ELSE s

Trim(s) == TrimRight(TrimLeft(s))

\* First position at which sep occurs in s, 0 when it does not.
IndexOf(s, sep) ==
    LET at == {k \in 1..(Len(s) - Len(sep) + 1) : SubSeq(s, k, k + Len(sep) - 1) = sep}
    IN  IF at = {} THEN 0 ELSE CHOOSE k \in at : \A j \in at : k <= j

\* String.prototype.split with a non-empty string separator: "a,,b" gives
\* three parts, the empty string gives one empty part.
RECURSIVE Split(_, _)
Split(s, sep) ==
    LET k == IndexOf(s, sep)
    IN  IF k = 0 THEN <<s>>
        ELSE <<SubSeq(s, 1, k - 1)>> \o Split(SubSeq(s, k + Len(sep), Len(s)), sep)

\* Array.prototype.join.
RECURSIVE Join(_, _)
Join(parts, sep) ==
    IF parts = <<>> THEN <<>>
    ELSE IF Len(parts) = 1 THEN parts[1]
    ELSE parts[1] \o sep \o Join(Tail(parts), sep)

EndsWith(s, suffix) ==
    Len(s) >= Len(suffix) /\ SubSeq(s, Len(s) - Len(suffix) + 1, Len(s)) = suffix

StartsWith(s, prefix) ==
    Len(s) >= Len(prefix) /\ SubSeq(s, 1, Len(prefix)) = prefix

Openers == {"(", "[", "{"}
Closers == {")", "]", "}"}

RECURSIVE DropOpeners(_)
DropOpeners(s) ==
    IF s # <<>> /\ Head(s) \in Openers THEN DropOpeners(Tail(s)) ELSE s

RECURSIVE DropClosers(_)
DropClosers(s) ==
    IF s # <<>> /\ s[Len(s)] \in Closers THEN DropClosers(SubSeq(s, 1, Len(s) - 1)) ELSE s

\* A faulty variant of the cleaning, which leaves the trailing run.
StripWrappingLeading(s) == DropOpeners(s)

\* s.replace(/^[\(\[\{]+|[\)\]\}]+$/g, ''): the leading run of openers and
\* the trailing run of closers are removed (the two runs cannot overlap).
StripWrapping(s) == DropClosers(DropOpeners(s))

\* String.prototype.toLowerCase on the letters of the alphabet.
LowerChar(c) ==
    CASE c = "T" -> "t" [] c = "R" -> "r" [] c = "U" -> "u" [] c = "E" -> "e"
      [] OTHER -> c

\* A faulty variant of the next definition, which keeps the case.
SameCase(s) == s

ToLowerCase(s) == [k \in 1..Len(s) |-> LowerChar(s[k])]

MapTrim(parts) == [k \in 1..Len(parts) |-> Trim(parts[k])]

(*************************** values ****************************************)

Undefined == [t |-> "undefined", v |-> 0]
Null      == [t |-> "null", v |-> 0]
\* A TypeError raised by the engine, as the outcome of a call.
Throw     == [t |-> "throw", v |-> 0]

Str(s)    == [t |-> "string", v |-> s]
Bool(b)   == [t |-> "boolean", v |-> b]
\* The finite decimal m / 10^e, normalised: e = 0 or m is no multiple of 10.
Num(m, e) == [t |-> "number", v |-> <<m, e>>]
Obj(f)    == [t |-> "object", v |-> f]
Arr(xs)   == [t |-> "array", v |-> xs, p |-> <<>>]

EmptyObj == Obj(<<>>)
EmptyArr == Arr(<<>>)

IsArray(x)  == x.t = "array"
IsString(x) == x.t = "string"

\* typeof x === 'object' for a value that is neither null nor undefined.
IsObjectType(x) == x.t \in {"object", "array"}

\* JavaScript truthiness.
Truthy(x) ==
    CASE x.t \in {"undefined", "null"} -> FALSE
      [] x.t = "string"  -> x.v # <<>>
      [] x.t = "boolean" -> x.v
      [] x.t = "number"  -> x.v[1] # 0
      [] OTHER -> TRUE

\* current[key] for a key that is no array index and no built-in property
\* name: an own property of an object or array, undefined on a primitive.
GetProp(current, key) ==
    CASE current.t = "object" ->
            IF key \in DOMAIN current.v THEN current.v[key] ELSE Undefined
      [] current.t = "array" ->
            IF key \in DOMAIN current.p THEN current.p[key] ELSE Undefined
      [] OTHER -> Undefined

PutFn(f, key, val) ==
    [k \in (DOMAIN f) \cup {key} |-> IF k = key THEN val ELSE f[k]]

\* A faulty variant of the next definition, which keeps a property that
\* exists: the first write wins.
SetPropKeep(current, key, val) ==
    CASE current.t = "object" ->
            IF key \in DOMAIN current.v THEN current ELSE Obj(PutFn(current.v, key, val))
      [] current.t = "array"  ->
            IF key \in DOMAIN current.p THEN current
            ELSE [current EXCEPT !.p = PutFn(current.p, key, val)]
      [] OTHER -> Throw

\* current[key] = val.  The module is an ES module, hence strict code:
\* creating a property on a primitive (string, number, boolean) raises a
\* TypeError.
SetProp(current, key, val) ==
    CASE current.t = "object" -> Obj(PutFn(current.v, key, val))
      [] current.t = "array"  -> [current EXCEPT !.p = PutFn(current.p, key, val)]
      [] OTHER -> Throw

\* arrayRef[index] = val (index counted from 1 here), index <= length + 1.
SetIndex(arrayRef, index, val) ==
    IF index > Len(arrayRef.v)
    THEN [arrayRef EXCEPT !.v = Append(arrayRef.v, val)]
    ELSE [arrayRef EXCEPT !.v[index] = val]

(*************************** numbers and JSON ******************************)

Digit == {"0", "1", "2", "3", "4", "5", "6", "7", "8", "9"}

DigitVal(c) ==
    CASE c = "0" -> 0 [] c = "1" -> 1 [] c = "2" -> 2 [] c = "3" -> 3
      [] c = "4" -> 4 [] c = "5" -> 5 [] c = "6" -> 6 [] c = "7" -> 7
      [] c = "8" -> 8 [] c = "9" -> 9

AllDigits(s) == \A k \in 1..Len(s) : s[k] \in Digit

RECURSIVE DigitsValue(_)
DigitsValue(s) ==
    IF s = <<>> THEN 0
    ELSE 10 * DigitsValue(SubSeq(s, 1, Len(s) - 1)) + DigitVal(s[Len(s)])

RECURSIVE Normalise(_, _)
Normalise(m, e) ==
    IF e > 0 /\ m % 10 = 0 THEN Normalise(m \div 10, e - 1) ELSE Num(m, e)

NaN == [t |-> "NaN", v |-> 0]

\* Number(strVal) for a trimmed, non-empty string: an optional sign, then
\* decimal digits with an optional fraction ("12.5", "7.", ".5"); anything
\* else is NaN.  Exponent, radix-prefixed and Infinity literals are not
\* modelled: no string the model draws has one.  -0 is taken as 0.
ToNumber(strVal) ==
    LET signed   == strVal # <<>> /\ Head(strVal) \in {"-", "+"}
        digits   == IF signed THEN Tail(strVal) ELSE strVal
        dot      == IndexOf(digits, <<".">>)
        intPart  == IF dot = 0 THEN digits ELSE SubSeq(digits, 1, dot - 1)
        fraction == IF dot = 0 THEN <<>> ELSE SubSeq(digits, dot + 1, Len(digits))
        valid    == AllDigits(intPart) /\ AllDigits(fraction)
                    /\ Len(intPart) + Len(fraction) > 0
        mag      == DigitsValue(intPart \o fraction)
    IN  IF ~valid THEN NaN
        ELSE Normalise(IF signed /\ Head(strVal) = "-" THEN 0 - mag ELSE mag, Len(fraction))

RECURSIVE LeadingDigits(_)
LeadingDigits(s) ==
    IF s # <<>> /\ Head(s) \in Digit THEN <<Head(s)>> \o LeadingDigits(Tail(s)) ELSE <<>>

\* The outcome of a parsing step: a value and the text left, or a failure.
ParseOk(val, rest) == [ok |-> TRUE, v |-> val, rest |-> rest]
ParseFail == [ok |-> FALSE, v |-> Undefined, rest |-> <<>>]

\* A JSON number at the head of s: -?(0|[1-9][0-9]*)(\.[0-9]+)?  (exponents
\* are not modelled, as for ToNumber).
JsonNumber(s) ==
    LET neg      == s # <<>> /\ Head(s) = "-"
        s1       == IF neg THEN Tail(s) ELSE s
        intPart  == LeadingDigits(s1)
        s2       == SubSeq(s1, Len(intPart) + 1, Len(s1))
        hasFrac  == s2 # <<>> /\ Head(s2) = "."
        fraction == IF hasFrac THEN LeadingDigits(Tail(s2)) ELSE <<>>
        rest     == IF hasFrac THEN SubSeq(s2, Len(fraction) + 2, Len(s2)) ELSE s2
        valid    == /\ intPart # <<>>
                    /\ (Len(intPart) = 1 \/ Head(intPart) # "0")
                    /\ (hasFrac => fraction # <<>>)
        mag      == DigitsValue(intPart \o fraction)
    IN  IF ~valid THEN ParseFail
        ELSE ParseOk(Normalise(IF neg THEN 0 - mag ELSE mag, Len(fraction)), rest)

\* A JSON string at the head of s (s starts with a double quote).  The
\* alphabet has no backslash and no control character, so the string ends
\* at the next double quote.
JsonString(s) ==
    LET close == IndexOf(Tail(s), <<"\"">>)
    IN  IF close = 0 THEN ParseFail
        ELSE ParseOk(Str(SubSeq(s, 2, close)), SubSeq(s, close + 2, Len(s)))

\* JSON.parse is modelled as the pushdown automaton of the JSON grammar
\*   value    := ws (literal | string | number | '[' elements | '{' members)
\*   elements := ws ']' | value (ws ',' value)* ws ']'
\*   members  := ws '}' | ws string ws ':' value (ws ',' ws string ws ':' value)* ws '}'
\* A parser state holds the text left, the open containers (innermost
\* last) and a mode: "value" (a value is expected), "key" (a member key is
\* expected), "deliver" (val has been read and goes to the innermost open
\* container), "delim" (',' or the closing bracket is expected), "done"
\* (val is the whole value read) or "fail".
ParserState(mode, rest, stack, val) ==
    [mode |-> mode, rest |-> rest, stack |-> stack, val |-> val]

ParserFail == ParserState("fail", <<>>, <<>>, Undefined)

ArrayFrame(acc)       == [kind |-> "array", acc |-> acc, key |-> <<>>]
ObjectFrame(acc, key) == [kind |-> "object", acc |-> acc, key |-> key]

\* A scalar read by JsonString or JsonNumber goes to mode "deliver".
ParserScalar(stack, r) ==
    IF r.ok THEN ParserState("deliver", r.rest, stack, r.v) ELSE ParserFail

\* After an opening bracket, r being the text after it without its leading
\* white space: the empty container, or a new open container.
ParserOpen(stack, r, closer, empty, frame, mode) ==
    IF r # <<>> /\ Head(r) = closer THEN ParserState("deliver", Tail(r), stack, empty)
    ELSE ParserState(mode, r, Append(stack, frame), Undefined)

\* Mode "value", s being the text left without its leading white space.
ParserValue(stack, s) ==
    CASE s = <<>> -> ParserFail
      [] StartsWith(s, <<"t", "r", "u", "e">>) ->
            ParserState("deliver", SubSeq(s, 5, Len(s)), stack, Bool(TRUE))
      [] StartsWith(s, <<"f", "a", "l", "s", "e">>) ->
            ParserState("deliver", SubSeq(s, 6, Len(s)), stack, Bool(FALSE))
      [] StartsWith(s, <<"n", "u", "l", "l">>) ->
            ParserState("deliver", SubSeq(s, 5, Len(s)), stack, Null)
      [] Head(s) = "\"" -> ParserScalar(stack, JsonString(s))
      [] Head(s) = "[" ->
            ParserOpen(stack, TrimLeft(Tail(s)), "]", EmptyArr, ArrayFrame(<<>>), "value")
      [] Head(s) = "{" ->
            ParserOpen(stack, TrimLeft(Tail(s)), "}", EmptyObj, ObjectFrame(<<>>, <<>>), "key")
      [] Head(s) \in Digit \cup {"-"} -> ParserScalar(stack, JsonNumber(s))
      [] OTHER -> ParserFail

\* The stack with its innermost open container replaced.
WithTop(stack, frame) == [stack EXCEPT ![Len(stack)] = frame]

\* After a member key k, r being the text after it without its leading
\* white space: ':' and then the member's value.
ParserColon(stack, k, r) ==
    IF r = <<>> \/ Head(r) # ":" THEN ParserFail
    ELSE ParserState("value", Tail(r),
                     WithTop(stack, ObjectFrame(stack[Len(stack)].acc, k.v)), Undefined)

ParserKeyRead(stack, k) ==
    IF ~k.ok THEN ParserFail ELSE ParserColon(stack, k.v, TrimLeft(k.rest))

\* Mode "key", s being the text left without its leading white space.
ParserKey(stack, s) ==
    IF s = <<>> \/ Head(s) # "\"" THEN ParserFail ELSE ParserKeyRead(stack, JsonString(s))

\* Mode "deliver": val is the value of the whole text, or joins the
\* innermost open container (a repeated member key keeps its last value).
ParserDeliver(st) ==
    IF st.stack = <<>> THEN ParserState("done", st.rest, <<>>, st.val)
    ELSE IF st.stack[Len(st.stack)].kind = "array"
    THEN ParserState("delim", st.rest,
                     WithTop(st.stack, ArrayFrame(Append(st.stack[Len(st.stack)].acc, st.val))),
                     Undefined)
    ELSE ParserState("delim", st.rest,
                     WithTop(st.stack,
                             ObjectFrame(PutFn(st.stack[Len(st.stack)].acc,
                                               st.stack[Len(st.stack)].key, st.val), <<>>)),
                     Undefined)

\* Mode "delim", top being the innermost open container and r the text left
\* without its leading white space.
ParserDelim(stack, top, r) ==
    IF r = <<>> THEN ParserFail
    ELSE IF Head(r) = ","
    THEN ParserState(IF top.kind = "array" THEN "value" ELSE "key", Tail(r), stack, Undefined)
    ELSE IF Head(r) = "]" /\ top.kind = "array"
    THEN ParserState("deliver", Tail(r), SubSeq(stack, 1, Len(stack) - 1), Arr(top.acc))
    ELSE IF Head(r) = "}" /\ top.kind = "object"
    THEN ParserState("deliver", Tail(r), SubSeq(stack, 1, Len(stack) - 1), Obj(top.acc))
    ELSE ParserFail

ParserStep(st) ==
    CASE st.mode = "value"   -> ParserValue(st.stack, TrimLeft(st.rest))
      [] st.mode = "key"     -> ParserKey(st.stack, TrimLeft(st.rest))
      [] st.mode = "deliver" -> ParserDeliver(st)
      [] st.mode = "delim"   ->
            ParserDelim(st.stack, st.stack[Len(st.stack)], TrimLeft(st.rest))

RECURSIVE ParserRun(_)
ParserRun(st) ==
    IF st.mode \in {"done", "fail"} THEN st ELSE ParserRun(ParserStep(st))

SyntaxError == [t |-> "SyntaxError", v |-> 0]

ParserResult(st) ==
    IF st.mode = "done" /\ TrimLeft(st.rest) = <<>> THEN st.val ELSE SyntaxError

\* JSON.parse(text): the parsed value, or SyntaxError for the exception.
JsonParse(text) == ParserResult(ParserRun(ParserState("value", text, <<>>, Undefined)))

(*************************** Type Caster ***********************************)

\* String(val), for the primitives castValue is handed: strings (cells,
\* defaults and tokens).
StringOf(val) ==
    CASE val.t = "string"  -> val.v
      [] val.t = "boolean" -> IF val.v THEN <<"t", "r", "u", "e">>
                              ELSE <<"f", "a", "l", "s", "e">>

\* A faulty variant of the next definition, which lets NaN through.
NumberKept(num) == num

\* isNaN(num) ? 0 : num
NumberOrZero(num) == IF num = NaN THEN Num(0, 0) ELSE num

\* A faulty variant of the next definition, which does not catch.
ParsedUncaught(parsed, zero) == IF parsed = SyntaxError THEN Throw ELSE parsed

\* try { return JSON.parse(strVal); } catch { return zero; }
ParsedOr(parsed, zero) == IF parsed = SyntaxError THEN zero ELSE parsed

\* The switch of castValue, on the trimmed string.
CastString(strVal, type) ==
    CASE type \in {"number", "array_number"} ->
            IF strVal = <<>> THEN Num(0, 0) ELSE NumberOrZero(ToNumber(strVal))
      [] type = "boolean" ->
            Bool(ToLowerCase(strVal) = <<"t", "r", "u", "e">> \/ strVal = <<"1">>)
      [] type = "object" ->
            IF strVal = <<>> THEN EmptyObj ELSE ParsedOr(JsonParse(strVal), EmptyObj)
      [] type = "array_object" ->
            IF strVal = <<>> THEN EmptyArr ELSE ParsedOr(JsonParse(strVal), EmptyArr)
      [] OTHER -> Str(strVal)

castValue(val, type) ==
    IF val.t \in {"undefined", "null"} THEN val
    ELSE IF IsObjectType(val) THEN val
    ELSE CastString(Trim(StringOf(val)), type)

(*************************** Path Accessor *********************************)

RECURSIVE setDeep(_, _, _)
RECURSIVE SetParts(_, _, _)
RECURSIVE ForEachAssign(_, _, _, _)

\* A faulty variant of the next definition, which replaces the element
\* whatever it holds.
EnsureElementAnew(arrayRef, index) == SetIndex(arrayRef, index, EmptyObj)

\* if (!arrayRef[index]) arrayRef[index] = {}
EnsureElement(arrayRef, index) ==
    IF index > Len(arrayRef.v) \/ ~Truthy(arrayRef.v[index])
    THEN SetIndex(arrayRef, index, EmptyObj)
    ELSE arrayRef

\* The element written by the recursive setDeep is part of the array; a
\* TypeError it raised leaves the forEach.
ForEachStore(arrayRef, element, valuesToAssign, index, remainingPath) ==
    IF element = Throw THEN Throw
    ELSE ForEachAssign(SetIndex(arrayRef, index, element), valuesToAssign,
                       index + 1, remainingPath)

ForEachElement(arrayRef, valuesToAssign, index, remainingPath) ==
    ForEachStore(arrayRef,
                 setDeep(arrayRef.v[index], remainingPath, valuesToAssign[index]),
                 valuesToAssign, index, remainingPath)

\* valuesToAssign.forEach((val, index) => ...) from position index on (counted
\* from 1): the array after the loop, or Throw.
ForEachAssign(arrayRef, valuesToAssign, index, remainingPath) ==
    IF index > Len(valuesToAssign) THEN arrayRef
    ELSE ForEachElement(EnsureElement(arrayRef, index), valuesToAssign, index,
                        remainingPath)

\* if (!current[key] || !Array.isArray(current[key])) current[key] = []
EnsureArray(current, key, existing) ==
    IF ~Truthy(existing) \/ ~IsArray(existing) THEN SetProp(current, key, EmptyArr)
    ELSE current

\* if (!current[key]) current[key] = {}
EnsureObject(current, key, existing) ==
    IF ~Truthy(existing) THEN SetProp(current, key, EmptyObj) ELSE current

\* A faulty variant of the next definition, which does not wrap.
ValuesAsGiven(value) == value

\* Array.isArray(value) ? value : [value]
ValuesToAssign(value) == IF IsArray(value) THEN value ELSE Arr(<<value>>)

\* current with the object or array below key as the writes below it left
\* it (the code mutates it in place); a TypeError raised below propagates.
StoreChild(current, key, child) ==
    IF child = Throw THEN Throw ELSE SetProp(current, key, child)

\* An array segment key[], current[key] being an array (or the attempt to
\* make it one having thrown): the last segment assigns the list, any other
\* distributes it over the elements and ends the loop.
ArrayPart(current, key, rest, value) ==
    IF current = Throw THEN Throw
    ELSE IF rest = <<>> THEN SetProp(current, key, ValuesToAssign(value))
    ELSE StoreChild(current, key,
                    ForEachAssign(GetProp(current, key), ValuesToAssign(value).v, 1,
                                  Join(rest, <<".">>)))

\* A plain segment that is not the last: the loop goes on below current[key].
ObjectPart(current, key, rest, value) ==
    IF current = Throw THEN Throw
    ELSE StoreChild(current, key, SetParts(GetProp(current, key), rest, value))

SetPart(current, key, isArrayPath, rest, value) ==
    IF isArrayPath
    THEN ArrayPart(EnsureArray(current, key, GetProp(current, key)), key, rest, value)
    ELSE IF rest = <<>> THEN SetProp(current, key, value)
    ELSE ObjectPart(EnsureObject(current, key, GetProp(current, key)), key, rest, value)

IsArrayPath(part) == EndsWith(part, <<"[", "]">>)

\* isArrayPath ? part.slice(0, -2) : part
PartKey(part) == IF IsArrayPath(part) THEN SubSeq(part, 1, Len(part) - 2) ELSE part

\* The loop over parts from its first part on, current being the object
\* reached so far: what current has become when the loop ends, or Throw.
SetParts(current, parts, value) ==
    SetPart(current, PartKey(Head(parts)), IsArrayPath(Head(parts)), Tail(parts), value)

\* setDeep(obj, path, value): obj after the in-place write, or Throw when a
\* TypeError is raised on the way.  An empty path is a no-op.
setDeep(obj, path, value) ==
    IF path = <<>> THEN obj ELSE SetParts(obj, Split(path, <<".">>), value)

(*************************** Payload Constructor ***************************)

\* A Mapping (types: Mapping, TransformationConfig, InternalFieldMapping).
\* csvHeader "" stands for an unset or empty csvHeader (the code tests its
\* truthiness only); defaultValue is Undefined or a string.  A mapping
\* without transformation carries NoTransformation, on which every read the
\* code makes (?.enabled, ?.separator || ',', ?.itemSeparator || '*') gives
\* what it gives on undefined; internalFields <<>> stands for an absent or
\* empty list.
NoTransformation ==
    [enabled |-> FALSE, separator |-> <<>>, itemSeparator |-> <<>>, itemIndex |-> 0]

\* Faulty variants of the raw value resolution, which the properties of the
\* resolution must tell apart from RawValue: one takes an empty default for
\* a value, one lets the default win over an empty cell (row[h] || default),
\* one reads the row without testing that csvHeader is set.
RawValueEmptyDefault(row, m) ==
    IF m.csvHeader # "" /\ m.csvHeader \in DOMAIN row THEN Str(row[m.csvHeader])
    ELSE IF m.defaultValue # Undefined THEN m.defaultValue
    ELSE Undefined

RawValueFalsyCell(row, m) ==
    IF m.csvHeader # "" /\ m.csvHeader \in DOMAIN row /\ row[m.csvHeader] # <<>>
    THEN Str(row[m.csvHeader])
    ELSE IF m.defaultValue # Undefined /\ m.defaultValue # Str(<<>>) THEN m.defaultValue
    ELSE Undefined

RawValueAnyHeader(row, m) ==
    IF m.csvHeader \in DOMAIN row THEN Str(row[m.csvHeader])
    ELSE IF m.defaultValue # Undefined /\ m.defaultValue # Str(<<>>) THEN m.defaultValue
    ELSE Undefined

\* 1. Determine Raw Value: the row's cell when the column is mapped and
\* defined in the row, else a non-empty default, else undefined.
RawValue(row, m) ==
    IF m.csvHeader # "" /\ m.csvHeader \in DOMAIN row THEN Str(row[m.csvHeader])
    ELSE IF m.defaultValue # Undefined /\ m.defaultValue # Str(<<>>) THEN m.defaultValue
    ELSE Undefined

\* The test that sends a mapping to the structured array_object branch.
IsStructured(m, rawValue) ==
    m.dataType = "array_object" /\ IsString(rawValue) /\ m.csvHeader # ""

\* m.transformation?.separator || ','
Separator(m) ==
    IF m.transformation.separator # <<>> THEN m.transformation.separator ELSE <<",">>

\* m.transformation?.itemSeparator || '*'
ItemSeparator(m) ==
    IF m.transformation.itemSeparator # <<>> THEN m.transformation.itemSeparator
    ELSE <<"*">>

\* values[index] of a JavaScript array of strings, index counted from 0.
AtIndex(values, index) ==
    IF index >= 0 /\ index < Len(values) THEN Str(values[index + 1]) ELSE Undefined

\* A faulty variant of the next definition, which casts the empty string of
\* a missing token as well.
CastOrEmptyAlwaysCast(valAtIndex, dataType) ==
    castValue(IF valAtIndex # Undefined THEN valAtIndex ELSE Str(<<>>), dataType)

\* valAtIndex !== undefined ? castValue(valAtIndex, field.dataType) : ''
CastOrEmpty(valAtIndex, dataType) ==
    IF valAtIndex # Undefined THEN castValue(valAtIndex, dataType) ELSE Str(<<>>)

\* The value one internalFields entry hands to setDeep.
InternalFieldValue(values, field) ==
    CastOrEmpty(AtIndex(values, field.index), field.dataType)

RECURSIVE ItemFields(_, _, _)

ItemFieldsNext(obj, fields, values) ==
    IF obj = Throw THEN Throw ELSE ItemFields(obj, fields, values)

\* m.internalFields.forEach(field => setDeep(obj, field.key, finalVal)).
ItemFields(obj, fields, values) ==
    IF fields = <<>> THEN obj
    ELSE ItemFieldsNext(setDeep(obj, Head(fields).key,
                                InternalFieldValue(values, Head(fields))),
                        Tail(fields), values)

RawKey == <<"r", "a", "w">>

\* The object built from the cleaned item string.
ItemObject(m, cleanItem) ==
    IF Len(m.internalFields) > 0
    THEN ItemFields(EmptyObj, m.internalFields, MapTrim(Split(cleanItem, ItemSeparator(m))))
    ELSE Obj(RawKey :> Str(cleanItem))

\* The callback of rawList.map: the object built from one raw item.
StructuredItem(m, rawItem) == ItemObject(m, StripWrapping(Trim(rawItem)))

\* A TypeError raised while an item is built leaves the map.
ItemsOrThrow(items) ==
    IF \E k \in 1..Len(items) : items[k] = Throw THEN Throw ELSE Arr(items)

MapItems(m, rawList) == [k \in 1..Len(rawList) |-> StructuredItem(m, rawList[k])]

\* 2. Structured parsing: the list of item objects, or Throw.
StructuredList(m, rawValue) ==
    ItemsOrThrow(MapItems(m, Split(rawValue.v, Separator(m))))

\* subParts[idx] !== undefined ? subParts[idx] : ''
TokenOrEmpty(token) == IF token # Undefined THEN token.v ELSE <<>>

\* A faulty variant of the inner split, which does not clean the part.
InnerTokenNoStrip(m, part) ==
    TokenOrEmpty(AtIndex(MapTrim(Split(part, m.transformation.itemSeparator)),
                         m.transformation.itemIndex))

\* The positional inner split of one part of a simple array.
InnerToken(m, part) ==
    TokenOrEmpty(AtIndex(MapTrim(Split(StripWrapping(part), m.transformation.itemSeparator)),
                         m.transformation.itemIndex))

InnerSplit(m, listParts) ==
    IF m.transformation.itemSeparator # <<>>
    THEN [k \in 1..Len(listParts) |-> InnerToken(m, listParts[k])]
    ELSE listParts

\* A faulty variant of the split, which drops the empty parts.
ListPartsFiltered(m, rawValue) ==
    InnerSplit(m, SelectSeq(MapTrim(Split(rawValue.v, Separator(m))),
                            LAMBDA part : part # <<>>))

\* 3. Generic transformation: the list of strings a raw string is split into.
ListParts(m, rawValue) == InnerSplit(m, MapTrim(Split(rawValue.v, Separator(m))))

StringList(parts) == Arr([k \in 1..Len(parts) |-> Str(parts[k])])

\* finalValue after step 3: the list of strings, or the raw value itself.
Transformed(m, rawValue) ==
    IF m.transformation.enabled /\ IsString(rawValue)
    THEN StringList(ListParts(m, rawValue))
    ELSE rawValue

IsArrayType(m) ==
    m.dataType \in {"array_string", "array_number", "array_object"}

\* if (isArrayType && !Array.isArray(finalValue)) finalValue = [finalValue]
WrapForArrayType(m, finalValue) ==
    IF IsArrayType(m) /\ ~IsArray(finalValue) THEN Arr(<<finalValue>>) ELSE finalValue

CastEach(m, finalValue) ==
    IF IsArray(finalValue)
    THEN Arr([k \in 1..Len(finalValue.v) |-> castValue(finalValue.v[k], m.dataType)])
    ELSE castValue(finalValue, m.dataType)

\* A faulty variant of the generic casting, which does not wrap a scalar
\* of an array type.
GenericCastNoWrap(m, finalValue) == CastEach(m, finalValue)

\* 4. Generic type casting of finalValue.
GenericCast(m, finalValue) == CastEach(m, WrapForArrayType(m, finalValue))

\* The value for a raw value that is defined.
ValueFor(m, rawValue) ==
    IF rawValue = Undefined THEN Undefined
    ELSE IF IsStructured(m, rawValue) THEN StructuredList(m, rawValue)
    ELSE GenericCast(m, Transformed(m, rawValue))

\* What the callback of mappings.forEach hands to setDeep(body, m.jsonPath, .)
\* for mapping m: Undefined when the mapping is skipped, Throw when building
\* the value raises.
ValueToWrite(row, m) == ValueFor(m, RawValue(row, m))

\* The end of the callback: no write for a skipped mapping, else setDeep.
WriteValue(body0, m, value) ==
    IF value = Undefined THEN body0
    ELSE IF value = Throw THEN Throw
    ELSE setDeep(body0, m.jsonPath, value)

\* The callback of mappings.forEach: body after mapping m, or Throw.
ApplyMapping(body0, row, m) == WriteValue(body0, m, ValueToWrite(row, m))

RECURSIVE ApplyAll(_, _, _)
ApplyAll(body0, row, ms) ==
    IF ms = <<>> \/ body0 = Throw THEN body0
    ELSE ApplyAll(ApplyMapping(body0, row, Head(ms)), row, Tail(ms))

\* constructPayload(row, mappings): the payload, or Throw.
constructPayload(row, ms) == ApplyAll(EmptyObj, row, ms)

(*************************** inputs ****************************************)

\* Bounds of the model: the longest mapping list drawn, and the number of
\* rows of RowTable a behaviour may pass to constructPayload.
MaxMappings == 2
MaxRows == 3

Mapping(jsonPath, dataType, csvHeader, defaultValue, transformation, internalFields) ==
    [jsonPath |-> jsonPath, dataType |-> dataType, csvHeader |-> csvHeader,
     defaultValue |-> defaultValue, transformation |-> transformation,
     internalFields |-> internalFields]

Transformation(enabled, separator, itemSeparator, itemIndex) ==
    [enabled |-> enabled, separator |-> separator,
     itemSeparator |-> itemSeparator, itemIndex |-> itemIndex]

Field(key, index, dataType) == [key |-> key, index |-> index, dataType |-> dataType]

\* Rows of string cells.  Column C is in no row; the second row has an empty
\* cell and empty parts; the third holds JSON text and the fourth JSON that
\* parses to a scalar; the third and fourth have a column whose header is
\* the empty string (parseCSV keeps such a header).
RowTable ==
    << ("A" :> <<" ", "(", "x", "*", "1", ")", ",", " ", "y", " ">>) @@ ("B" :> <<"7">>),
       ("A" :> <<"a", ",", ",", "b">>) @@ ("B" :> <<>>),
       ("A" :> <<"{", "\"", "b", "\"", ":", "1", "}">>) @@ ("B" :> <<"T", "R", "U", "E">>)
          @@ ("" :> <<"z">>),
       ("A" :> <<"5">>) @@ ("B" :> <<"0">>) @@ ("" :> <<"w">>),
       ("A" :> <<"[", "p", "*", "2", ".", "5", "]", ",">>) @@ ("B" :> <<" ", "1", " ">>) >>

PathA   == <<"a">>
PathAB  == <<"a", ".", "b">>
PathK   == <<"k">>
PathKs  == <<"k", "[", "]">>
PathKsX == <<"k", "[", "]", ".", "x">>

\* The mappings the lists are drawn from: every dataType, plain, nested and
\* array paths (one a prefix of another), mapped, unmapped and missing
\* columns, defaults, simple and positional transformations, internal
\* fields in and out of range.
MappingPool ==
    { Mapping(PathA, "string", "A", Undefined, NoTransformation, <<>>),
      Mapping(PathAB, "number", "B", Str(<<"9">>), NoTransformation, <<>>),
      Mapping(PathA, "object", "A", Undefined, NoTransformation, <<>>),
      Mapping(PathAB, "string", "", Str(<<" ", "x">>), NoTransformation, <<>>),
      Mapping(PathA, "string", "", Str(<<"p", ",", "q">>),
              Transformation(FALSE, <<",">>, <<>>, 0), <<>>),
      Mapping(PathA, "string", "", Undefined, NoTransformation, <<>>),
      Mapping(PathA, "number", "C", Str(<<>>), NoTransformation, <<>>),
      Mapping(PathA, "boolean", "B", Str(<<"1">>), NoTransformation, <<>>),
      Mapping(PathAB, "boolean", "C", Str(<<"1">>), NoTransformation, <<>>),
      Mapping(PathKs, "array_string", "A", Undefined,
              Transformation(TRUE, <<>>, <<>>, 0), <<>>),
      Mapping(PathKsX, "array_number", "A", Undefined,
              Transformation(TRUE, <<",">>, <<"*">>, 1), <<>>),
      Mapping(PathA, "string", "A", Undefined,
              Transformation(TRUE, <<",">>, <<"*">>, 0), <<>>),
      Mapping(PathK, "array_object", "A", Undefined,
              Transformation(FALSE, <<",">>, <<"*">>, 0),
              <<Field(<<"x">>, 0, "string"), Field(<<"n">>, 1, "number")>>),
      Mapping(PathK, "array_object", "A", Undefined, NoTransformation, <<>>),
      Mapping(PathKsX, "array_object", "A", Undefined,
              Transformation(TRUE, <<",">>, <<"*">>, 1),
              <<Field(<<"x">>, 1, "boolean"), Field(<<"x", ".", "y">>, 0, "string")>>),
      Mapping(PathK, "array_object", "", Str(<<"[", "1", "]">>), NoTransformation, <<>>),
      Mapping(PathKsX, "string", "B", Undefined, NoTransformation, <<>>) }

RECURSIVE SeqsUpTo(_, _)
SeqsUpTo(S, n) ==
    IF n = 0 THEN {<<>>}
    ELSE LET shorter == SeqsUpTo(S, n - 1)
         IN  shorter \cup {Append(q, x) : q \in shorter, x \in S}

MappingLists == SeqsUpTo(MappingPool, MaxMappings)

RowIds == 1..(IF MaxRows < Len(RowTable) THEN MaxRows ELSE Len(RowTable))

(*************************** state machine *********************************)

\* mappings  the mapping list of the session (the live FieldMapping list)
\* rowId     the row of the call in progress or last made (0: none yet)
\* body      the object under construction in the call
\* idx       the position in mappings the forEach of the call has reached
\* pc        "idle", "loop" (inside forEach), "returned" or "threw"
\* raw       rawValue of the last callback (Undefined: none resolved)
\* pre       finalValue of the last callback after the generic
\*           transformation and before casting (Undefined: step not reached)
\* written   what the last callback handed to setDeep(body, m.jsonPath, .)
\*           (Undefined: nothing; Throw: building it raised)
\* returned  the row and the payload of the first call that returned
\*           (row 0: none has), kept to compare the later calls with
\* between   a call for another row has returned since
VARIABLES mappings, rowId, body, idx, pc, raw, pre, written, returned, between

payloadVars == <<mappings, rowId, body, idx, pc, raw, pre, written, returned, between>>

\* The Type Caster on its own: castValue(castVal, castType) is called once.
\* castVal   the value handed to castValue
\* castType  the DataType handed to castValue
\* castOut   what the call returned (Undefined: not called yet; Throw: it
\*           raised)
\* castPc    "ready" before the call, "done" after it
VARIABLES castVal, castType, castOut, castPc

castVars == <<castVal, castType, castOut, castPc>>

\* The Path Accessor on its own: setDeep(deepRoot, deepPath, deepValue) is
\* called once.
\* deepRoot   the object handed to setDeep, as it is before the call
\* deepPath   the path
\* deepValue  the value
\* deepOut    the object after the call (Throw: the call raised)
\* deepPc     "ready" before the call, "done" after it, "again" after a
\*            second call on the same object
\* deepThen   the second call setDeep(deepOut, path, value): its path, its
\*            value and the object after it (out)
VARIABLES deepRoot, deepPath, deepValue, deepOut, deepPc, deepThen

deepVars == <<deepRoot, deepPath, deepValue, deepOut, deepPc, deepThen>>

\* The JobRunner component.
\* jobData      the data of the rows of the job (props.data, then the data
\*              field of the JobLog list), as positions of RowTable
\* logs         the JobLog list: per row its status, statusCode (-1: none)
\*              and whether a response is recorded
\* isRunning    the isRunning state of the component
\* controllers  the AbortControllers created so far, each by whether its
\*              signal is aborted; abortControllerRef.current is the last
\* runs         the invocations of executeJob so far, each with the logs its
\*              closure holds (snap), the index i of its loop, its position
\*              pc, the controller of its request in flight (sig), the
\*              indices it sent a request for and recorded an outcome for,
\*              and whether stopJob was invoked while it was alive
\* retries      the invocations of retryRow so far, each with its index
\*              (row), the data its closure holds for the row, the isRunning
\*              its closure holds, and its position pc
\* editingRow   the index of editingRow (0: null)
VARIABLES jobData, logs, isRunning, controllers, runs, retries, editingRow

jobVars == <<jobData, logs, isRunning, controllers, runs, retries, editingRow>>

\* The App component and the DataMapper it mounts.
\* step            the step of the wizard
\* apiConfig       the ApiConfig (Null: none), an object with its bodyTemplate
\* bulkData        the committed row list, as positions of RowTable
\* appMappings     the committed mapping list (mappings of App)
\* parsedRows      the parsedRows of the DataMapper (empty while none is
\*                 mounted)
\* mapperMappings  the mappings of the DataMapper (empty while none is
\*                 mounted)
\* parsing         the calls of parseCurlWithGemini that are awaited
VARIABLES step, apiConfig, bulkData, appMappings, parsedRows, mapperMappings, parsing

appVars == <<step, apiConfig, bulkData, appMappings, parsedRows, mapperMappings, parsing>>

vars == <<payloadVars, castVars, deepVars, jobVars, appVars>>

\* The state of each part of the program while another part is looked at.
PayloadIdle ==
    /\ mappings = <<>>
    /\ rowId = 0
    /\ body = EmptyObj
    /\ idx = 1
    /\ pc = "idle"
    /\ raw = Undefined
    /\ pre = Undefined
    /\ written = Undefined
    /\ returned = [row |-> 0, payload |-> Undefined]
    /\ between = FALSE

CastIdle ==
    /\ castVal = Undefined
    /\ castType = "string"
    /\ castOut = Undefined
    /\ castPc = "ready"

DeepIdle ==
    /\ deepRoot = EmptyObj
    /\ deepPath = <<>>
    /\ deepValue = Undefined
    /\ deepOut = Undefined
    /\ deepPc = "ready"
    /\ deepThen = [path |-> <<>>, value |-> Undefined, out |-> Undefined]

JobIdle ==
    /\ jobData = <<>>
    /\ logs = <<>>
    /\ isRunning = FALSE
    /\ controllers = <<>>
    /\ runs = <<>>
    /\ retries = <<>>
    /\ editingRow = 0

AppIdle ==
    /\ step = "CONFIGURE"
    /\ apiConfig = Null
    /\ bulkData = <<>>
    /\ appMappings = <<>>
    /\ parsedRows = <<>>
    /\ mapperMappings = <<>>
    /\ parsing = 0

\* What the calls of constructPayload leave alone.
outsidePayload == <<castVars, deepVars, jobVars, appVars>>

OutsidePayloadIdle == CastIdle /\ DeepIdle /\ JobIdle /\ AppIdle

\* What the call of castValue leaves alone.
outsideCast == <<payloadVars, deepVars, jobVars, appVars>>

OutsideCastIdle == PayloadIdle /\ DeepIdle /\ JobIdle /\ AppIdle

\* What the call of setDeep leaves alone.
outsideDeep == <<payloadVars, castVars, jobVars, appVars>>

OutsideDeepIdle == PayloadIdle /\ CastIdle /\ JobIdle /\ AppIdle

\* What the JobRunner leaves alone.
outsideJob == <<payloadVars, castVars, deepVars, appVars>>

OutsideJobIdle == PayloadIdle /\ CastIdle /\ DeepIdle /\ AppIdle

\* What the App and its DataMapper leave alone.
outsideApp == <<payloadVars, castVars, deepVars, jobVars>>

OutsideAppIdle == PayloadIdle /\ CastIdle /\ DeepIdle /\ JobIdle

Init ==
    /\ mappings \in MappingLists
    /\ rowId = 0
    /\ body = EmptyObj
    /\ idx = 1
    /\ pc = "idle"
    /\ raw = Undefined
    /\ pre = Undefined
    /\ written = Undefined
    /\ returned = [row |-> 0, payload |-> Undefined]
    /\ between = FALSE
    /\ OutsidePayloadIdle

\* A faulty variant of the entry: body is shared by the calls instead of
\* being created in each.
CallNoReset(r) ==
    /\ pc \in {"idle", "returned", "threw"}
    /\ rowId' = r
    /\ body' = IF body = Throw THEN EmptyObj ELSE body
    /\ idx' = 1
    /\ pc' = "loop"
    /\ raw' = Undefined
    /\ pre' = Undefined
    /\ written' = Undefined
    /\ UNCHANGED <<mappings, returned, between>>
    /\ UNCHANGED outsidePayload

\* constructPayload(RowTable[r], mappings) is entered: const body = {}.
Call(r) ==
    /\ pc \in {"idle", "returned", "threw"}
    /\ rowId' = r
    /\ body' = EmptyObj
    /\ idx' = 1
    /\ pc' = "loop"
    /\ raw' = Undefined
    /\ pre' = Undefined
    /\ written' = Undefined
    /\ UNCHANGED <<mappings, returned, between>>
    /\ UNCHANGED outsidePayload

\* finalValue between steps 3 and 4 of the callback, for the record.
PreCast(m, rawValue) ==
    IF rawValue = Undefined \/ IsStructured(m, rawValue) THEN Undefined
    ELSE Transformed(m, rawValue)

\* One callback of mappings.forEach, for mappings[idx].  A TypeError ends
\* the call: body is then the exception.
Iterate ==
    /\ pc = "loop"
    /\ idx <= Len(mappings)
    /\ raw' = RawValue(RowTable[rowId], mappings[idx])
    /\ pre' = PreCast(mappings[idx], raw')
    /\ written' = ValueToWrite(RowTable[rowId], mappings[idx])
    /\ body' = ApplyMapping(body, RowTable[rowId], mappings[idx])
    /\ pc' = IF body' = Throw THEN "threw" ELSE "loop"
    /\ idx' = IF body' = Throw THEN idx ELSE idx + 1
    /\ UNCHANGED <<mappings, rowId, returned, between>>
    /\ UNCHANGED outsidePayload

\* return body.
Return ==
    /\ pc = "loop"
    /\ idx > Len(mappings)
    /\ pc' = "returned"
    /\ returned' = IF returned.row = 0 THEN [row |-> rowId, payload |-> body] ELSE returned
    /\ between' = (between \/ (returned.row # 0 /\ returned.row # rowId))
    /\ UNCHANGED <<mappings, rowId, body, idx, raw, pre, written>>
    /\ UNCHANGED outsidePayload

Next ==
    \/ \E r \in RowIds : Call(r)
    \/ Iterate
    \/ Return

Spec == Init /\ [][Next]_vars

(*************************** vocabulary of the properties ******************)

\* The row of the call in progress or last made.
CurrentRow == RowTable[rowId]

\* A callback of the current call has run, and LastMapping is its mapping.
JustRan == (pc \in {"loop", "returned"} /\ idx > 1) \/ pc = "threw"

LastMapping == mappings[IF pc = "threw" THEN idx ELSE idx - 1]

\* The outcome of a call that has ended: its payload, or Throw.
Ended == pc \in {"returned", "threw"}

Outcome == IF pc = "threw" THEN Throw ELSE body

RemoveAt(ms, k) == SubSeq(ms, 1, k - 1) \o SubSeq(ms, k + 1, Len(ms))

\* The column of m is mapped and the row defines it.
ColumnDefined(row, m) == m.csvHeader # "" /\ m.csvHeader \in DOMAIN row

HasDefault(m) == m.defaultValue # Undefined /\ m.defaultValue # Str(<<>>)

\* The keys a path of plain or array segments goes through.
PathKeys(path) ==
    [k \in 1..Len(Split(path, <<".">>)) |-> PartKey(Split(path, <<".">>)[k])]

IsPlainPath(path) ==
    path # <<>> /\ \A k \in 1..Len(Split(path, <<".">>)) : ~IsArrayPath(Split(path, <<".">>)[k])

\* One path goes through the other's keys: equal, a prefix or an extension.
Overlap(p, q) ==
    LET n == IF Len(PathKeys(p)) < Len(PathKeys(q)) THEN Len(PathKeys(p)) ELSE Len(PathKeys(q))
    IN  SubSeq(PathKeys(p), 1, n) = SubSeq(PathKeys(q), 1, n)

\* The value at a path of plain segments in an object, Undefined if absent.
RECURSIVE ValueAtKeys(_, _)
ValueAtKeys(obj, keys) ==
    IF keys = <<>> THEN obj
    ELSE IF obj.t # "object" \/ Head(keys) \notin DOMAIN obj.v THEN Undefined
    ELSE ValueAtKeys(obj.v[Head(keys)], Tail(keys))

ValueAt(obj, path) == ValueAtKeys(obj, PathKeys(path))

\* No mapping of the list names a column.
NoHeaders == \A k \in 1..Len(mappings) : mappings[k].csvHeader = ""

\* Neither a cell nor a default: the mapping is absent for the row.
Absent(row, m) == ~ColumnDefined(row, m) /\ ~HasDefault(m)

\* A string mapping with a non-empty default, a path of plain segments and
\* no enabled transformation.
PlainDefaultString(m) ==
    /\ m.dataType = "string"
    /\ HasDefault(m)
    /\ ~m.transformation.enabled
    /\ IsPlainPath(m.jsonPath)

\* No mapping after position k has a path going through the keys of the
\* path of mappings[k], or the other way round.
NotTouchedLater(k) ==
    \A j \in (k + 1)..Len(mappings) : ~Overlap(mappings[j].jsonPath, mappings[k].jsonPath)

(*************************** C1 ********************************************)

\* C1: constructPayload never throws and always returns an object, for
\* every row and every list of well-formed mappings, lists with both a path
\* and a path below it included.
C1_NeverThrows ==
    /\ pc # "threw"
    /\ pc = "returned" => body.t = "object"

(*************************** C2 ********************************************)

\* C2: constructPayload is deterministic: two calls made for one row with
\* the mapping list fixed, in any order relative to the calls for other
\* rows, return structurally identical objects.  Every call that returns
\* is compared with the first call that returned, which any row may be the
\* row of.
C2_Deterministic ==
    (pc = "returned" /\ rowId = returned.row) => body = returned.payload

\* A later call for the row of the first call has returned a non-empty
\* payload, after a call for another row returned.
C2_Witness ==
    /\ pc = "returned"
    /\ rowId = returned.row
    /\ between
    /\ body # EmptyObj

(*************************** C3 ********************************************)

\* C3: skip on absence: a mapping whose csvHeader is unset or names a column
\* the row lacks, and whose defaultValue is empty or undefined, writes
\* nothing: its callback hands nothing to setDeep, and the call ends as the
\* call on the list without that mapping does, so that no key of its
\* jsonPath is created.
C3_SkipOnAbsence ==
    /\ (JustRan /\ Absent(CurrentRow, LastMapping)) =>
           (raw = Undefined /\ written = Undefined)
    /\ Ended =>
           \A k \in 1..Len(mappings) :
               Absent(CurrentRow, mappings[k]) =>
                   Outcome = constructPayload(CurrentRow, RemoveAt(mappings, k))

\* A call has returned a non-empty payload for a list of two mappings of
\* which the last, with a missing column and an empty default, is absent.
C3_Witness ==
    /\ pc = "returned"
    /\ Len(mappings) = 2
    /\ body # EmptyObj
    /\ mappings[2].csvHeader = "C"
    /\ mappings[2].defaultValue = Str(<<>>)
    /\ written = Undefined

(*************************** C4 ********************************************)

\* C4: raw value precedence: when csvHeader is set and the row defines that
\* column, even as the empty string, the raw value is the cell and the
\* default is ignored; only otherwise is a non-empty default the raw value.
C4_RawPrecedence ==
    JustRan =>
        /\ ColumnDefined(CurrentRow, LastMapping) =>
               raw = Str(CurrentRow[LastMapping.csvHeader])
        /\ (~ColumnDefined(CurrentRow, LastMapping) /\ HasDefault(LastMapping)) =>
               raw = LastMapping.defaultValue

\* A callback has run on an empty cell of a mapping that has a non-empty
\* default: the raw value is the empty cell.
C4_Witness ==
    /\ JustRan
    /\ ColumnDefined(CurrentRow, LastMapping)
    /\ CurrentRow[LastMapping.csvHeader] = <<>>
    /\ HasDefault(LastMapping)
    /\ raw = Str(<<>>)

(*************************** C5 ********************************************)

\* C5, as stated: for a mapping list in which no mapping has a csvHeader,
\* constructPayload returns the same payload for every row, and a string
\* mapping with defaultValue X yields exactly X at its jsonPath.
C5_DefaultExact ==
    (pc = "returned" /\ NoHeaders) =>
        /\ \A r \in RowIds : body = constructPayload(RowTable[r], mappings)
        /\ \A k \in 1..Len(mappings) :
               (mappings[k].dataType = "string" /\ mappings[k].defaultValue # Undefined) =>
                   ValueAt(body, mappings[k].jsonPath) = mappings[k].defaultValue

\* C5, amended: for a mapping list in which no mapping has a csvHeader, a
\* call ends the same way for every row; a string mapping with a non-empty
\* defaultValue X and no enabled transformation hands X with its
\* surrounding white space trimmed to setDeep for its jsonPath; and a
\* payload returned holds that value there when the path has plain
\* segments and no later mapping goes through it.
C5_DefaultTrimmed ==
    (Ended /\ NoHeaders) =>
        /\ \A r \in RowIds : Outcome = constructPayload(RowTable[r], mappings)
        /\ (JustRan /\ LastMapping.dataType = "string" /\ HasDefault(LastMapping)
                    /\ ~LastMapping.transformation.enabled) =>
               written = Str(Trim(LastMapping.defaultValue.v))
        /\ pc = "returned" =>
               \A k \in 1..Len(mappings) :
                   (PlainDefaultString(mappings[k]) /\ NotTouchedLater(k)) =>
                       ValueAt(body, mappings[k].jsonPath) = Str(Trim(mappings[k].defaultValue.v))

\* A call has returned for a list without columns in which the default
\* " x" was written as "x".
C5_Witness ==
    /\ pc = "returned"
    /\ NoHeaders
    /\ \E k \in 1..Len(mappings) :
           /\ mappings[k].defaultValue = Str(<<" ", "x">>)
           /\ PlainDefaultString(mappings[k])
           /\ NotTouchedLater(k)
    /\ ValueAt(body, PathAB) = Str(<<"x">>)

(*************************** vocabulary of the list branches ***************)

\* The last callback took the structured array_object branch.
InStructured == JustRan /\ IsStructured(LastMapping, raw)

\* The last callback took the generic transformation.
InTransformation ==
    JustRan /\ IsString(raw) /\ ~IsStructured(LastMapping, raw)
            /\ LastMapping.transformation.enabled

OrElse(s, default) == IF s # <<>> THEN s ELSE default

\* The parts of the raw value of the last callback: the raw value split on
\* the separator, a comma by default.
RawParts == Split(raw.v, OrElse(LastMapping.transformation.separator, <<",">>))

\* s without its leading run of ( [ { and its trailing run of ) ] }.
StripRuns(s) ==
    LET first == CHOOSE i \in 1..(Len(s) + 1) :
                     /\ \A h \in 1..(i - 1) : s[h] \in Openers
                     /\ i = Len(s) + 1 \/ s[i] \notin Openers
        rest  == SubSeq(s, first, Len(s))
        last  == CHOOSE j \in 0..Len(rest) :
                     /\ \A h \in (j + 1)..Len(rest) : rest[h] \in Closers
                     /\ j = 0 \/ rest[j] \notin Closers
    IN  SubSeq(rest, 1, last)

\* The trimmed tokens of a part: the part trimmed, cleaned of its wrapping
\* and split on the item separator.
Tokens(part, itemSeparator) == MapTrim(Split(StripRuns(Trim(part)), itemSeparator))

InRange(tokens, index) == index >= 0 /\ index < Len(tokens)

\* The token at an index counted from 0, the empty string when out of range.
TokenAt(tokens, index) == IF InRange(tokens, index) THEN tokens[index + 1] ELSE <<>>

\* The tokens of part j in the structured branch (item separator: * by default).
ItemTokens(j) == Tokens(RawParts[j], OrElse(LastMapping.transformation.itemSeparator, <<"*">>))

\* No later internalFields entry has a key going through the keys of entry e,
\* or the other way round.
FieldKept(e) ==
    \A f \in (e + 1)..Len(LastMapping.internalFields) :
        ~Overlap(LastMapping.internalFields[f].key, LastMapping.internalFields[e].key)

\* The mapping of the last callback with transformation.enabled inverted and
\* another itemIndex.
OtherTransformation ==
    [LastMapping EXCEPT !.transformation.enabled = ~@,
                        !.transformation.itemIndex = 1 - @]

(*************************** C6 ********************************************)

\* C6: structured array_object branch: for a mapping with dataType
\* array_object, csvHeader set and a string raw value, the value written at
\* jsonPath is a list holding exactly one object per item obtained by
\* splitting raw on the separator (a comma by default), in order; and the
\* generic transformation and casting are not applied:
\* transformation.enabled and itemIndex are not consulted.
C6_StructuredList ==
    InStructured =>
        /\ IsArray(written)
        /\ Len(written.v) = Len(RawParts)
        /\ \A j \in 1..Len(RawParts) :
               /\ written.v[j].t = "object"
               /\ written.v[j] = StructuredItem(LastMapping, RawParts[j])
        /\ written = ValueToWrite(CurrentRow, OtherTransformation)

\* The same, for the callbacks of the branch that hand a value to setDeep:
\* C6 fails in no other way than by the TypeError of C1.
C6_StructuredListWritten ==
    (InStructured /\ written # Throw) =>
        /\ IsArray(written)
        /\ Len(written.v) = Len(RawParts)
        /\ \A j \in 1..Len(RawParts) :
               /\ written.v[j].t = "object"
               /\ written.v[j] = StructuredItem(LastMapping, RawParts[j])
        /\ written = ValueToWrite(CurrentRow, OtherTransformation)

(*************************** C7 ********************************************)

\* C7, as stated: in the structured branch, for every item and every
\* internalFields entry, the value written at entry.key is the result of
\* casting tokens[entry.index] with entry.dataType, the token being taken as
\* the empty string when the index is out of range (so that number gives 0
\* and boolean false).  Stated of the lists that are written and of the
\* entries whose key no later entry goes through.
C7_CastOfToken ==
    (InStructured /\ IsArray(written)) =>
        \A j \in 1..Len(RawParts) :
            \A e \in 1..Len(LastMapping.internalFields) :
                FieldKept(e) =>
                    ValueAt(written.v[j], LastMapping.internalFields[e].key)
                        = castValue(Str(TokenAt(ItemTokens(j), LastMapping.internalFields[e].index)),
                                    LastMapping.internalFields[e].dataType)

\* C7, amended: in the structured branch, for every item of a list that is
\* written and every internalFields entry whose key no later entry goes
\* through, the value at entry.key is the result of casting
\* tokens[entry.index] with entry.dataType when the index is in range, and
\* the empty string itself, not cast, when it is out of range (so that
\* number and boolean give '' as well).
C7_CastOrEmptyString ==
    (InStructured /\ IsArray(written)) =>
        \A j \in 1..Len(RawParts) :
            \A e \in 1..Len(LastMapping.internalFields) :
                FieldKept(e) =>
                    ValueAt(written.v[j], LastMapping.internalFields[e].key)
                        = IF InRange(ItemTokens(j), LastMapping.internalFields[e].index)
                          THEN castValue(Str(TokenAt(ItemTokens(j), LastMapping.internalFields[e].index)),
                                         LastMapping.internalFields[e].dataType)
                          ELSE Str(<<>>)

\* A list of two items was written whose number entry n, at index 1, is
\* the number 1 in the first item and, out of range, '' in the second.
C7_Witness ==
    /\ InStructured
    /\ IsArray(written)
    /\ Len(written.v) = 2
    /\ Len(LastMapping.internalFields) = 2
    /\ LastMapping.internalFields[2] = Field(<<"n">>, 1, "number")
    /\ ValueAt(written.v[1], <<"n">>) = Num(1, 0)
    /\ Len(ItemTokens(2)) = 1
    /\ ValueAt(written.v[2], <<"n">>) = Str(<<>>)

(*************************** C8 ********************************************)

C9_ListBeforeCast ==
    InTransformation =>
        /\ IsArray(pre)
        /\ Len(pre.v) = Len(RawParts)
        /\ \A j \in 1..Len(RawParts) :
               pre.v[j] = IF LastMapping.transformation.itemSeparator = <<>>
                          THEN Str(Trim(RawParts[j]))
                          ELSE Str(TokenAt(Tokens(RawParts[j], LastMapping.transformation.itemSeparator),
                                           LastMapping.transformation.itemIndex))

\* With item separator * and itemIndex 1, the cell " (x*1), y " became the
\* list ["1", ""] before casting.
C9_Witness ==
    /\ InTransformation
    /\ LastMapping.transformation.itemSeparator = <<"*">>
    /\ LastMapping.transformation.itemIndex = 1
    /\ raw = Str(<<" ", "(", "x", "*", "1", ")", ",", " ", "y", " ">>)
    /\ pre = Arr(<<Str(<<"1">>), Str(<<>>)>>)

(*************************** C10 *******************************************)

\* C10, as stated: empty parts are filtered out in the simple array case
\* and kept in the structured case.
C10_EmptyFiltered ==
    /\ (InTransformation /\ LastMapping.transformation.itemSeparator = <<>>) =>
           /\ IsArray(pre)
           /\ \A j \in 1..Len(pre.v) : pre.v[j] # Str(<<>>)
    /\ (InStructured /\ IsArray(written)) => Len(written.v) = Len(RawParts)

\* C10, amended: empty parts are kept in both cases: the list of the simple
\* array case has one entry per part, the empty string for a part that is
\* empty once trimmed, and a structured list that is written has one
\* object per part.
C10_EmptyKept ==
    /\ (InTransformation /\ LastMapping.transformation.itemSeparator = <<>>) =>
           /\ IsArray(pre)
           /\ Len(pre.v) = Len(RawParts)
           /\ \A j \in 1..Len(RawParts) :
                  Trim(RawParts[j]) = <<>> => pre.v[j] = Str(<<>>)
    /\ (InStructured /\ IsArray(written)) => Len(written.v) = Len(RawParts)

\* The cell "a,,b" became the list ["a", "", "b"] in the simple array case.
C10_Witness ==
    /\ InTransformation
    /\ LastMapping.transformation.itemSeparator = <<>>
    /\ raw = Str(<<"a", ",", ",", "b">>)
    /\ pre = Arr(<<Str(<<"a">>), Str(<<>>), Str(<<"b">>)>>)

(*************************** C11 *******************************************)

\* The last callback reached the generic casting step.
InGenericCast == JustRan /\ raw # Undefined /\ ~IsStructured(LastMapping, raw)

ArrayDataTypes == {"array_string", "array_number", "array_object"}

\* C11: generic casting: for a mapping that reaches the generic casting
\* step, a value that is not a list is wrapped as a one-element list when
\* dataType starts with array_; a list is written as a list of the same
\* length whose i-th element is castValue(element i, m.dataType);
\* otherwise the written value is castValue(scalar, m.dataType).
C11_GenericCast ==
    InGenericCast =>
        /\ IsArray(pre) =>
               /\ IsArray(written)
               /\ Len(written.v) = Len(pre.v)
               /\ \A i \in 1..Len(pre.v) :
                      written.v[i] = castValue(pre.v[i], LastMapping.dataType)
        /\ (~IsArray(pre) /\ LastMapping.dataType \in ArrayDataTypes) =>
               written = Arr(<<castValue(pre, LastMapping.dataType)>>)
        /\ (~IsArray(pre) /\ LastMapping.dataType \notin ArrayDataTypes) =>
               written = castValue(pre, LastMapping.dataType)

\* The default "[1]" of an array_object mapping without column, a scalar
\* of an array type, was written as the one-element list [[1]].
C11_Witness ==
    /\ InGenericCast
    /\ LastMapping.dataType = "array_object"
    /\ pre = Str(<<"[", "1", "]">>)
    /\ written = Arr(<<Arr(<<Num(1, 0)>>)>>)

(*************************** the Type Caster on its own *******************)

DataTypes ==
    {"string", "number", "boolean", "object", "array_string", "array_number", "array_object"}

\* The strings handed to castValue: empty and blank ones, decimal literals
\* of every shape Number() takes and strings it refuses, the spellings of
\* true, JSON texts of every kind of value and texts JSON.parse refuses.
CastStrings ==
    { <<>>,
      <<" ">>,
      <<"a", "b", "c">>,
      <<"n", "o">>,
      <<"t", "r", "u">>,
      <<"t", "r", "u", "e", "e">>,
      <<"1", " ", "2">>,
      <<"1", ".", "2", ".", "3">>,
      <<".">>,
      <<"-">>,
      <<"T", "R", "U", "E">>,
      <<"T", "r", "u", "e">>,
      <<" ", "t", "R", "u", "E", " ">>,
      <<"{", "\"", "b", "\"", ":", "1">>,
      <<"[", "1", ",", "]">>,
      <<"{", "'", "a", "'", ":", "1", "}">>,
      <<"[", "1", " ", "2", "]">>,
      <<"{", "\"", "a", "\"", "}">>,
      <<"{", "\"", "a", "\"", ":", "1", "}", "x">>,
      <<"n", "u", "l">>,
      <<"1", "2", ".", "5">>,
      <<" ", "7", " ">>,
      <<"-", "3">>,
      <<"+", "4">>,
      <<".", "5">>,
      <<"5", ".">>,
      <<"0", "1">>,
      <<"1">>,
      <<" ", "1", " ">>,
      <<"0">>,
      <<"5">>,
      <<"1", ".", "5", "0">>,
      <<"t", "r", "u", "e">>,
      <<"f", "a", "l", "s", "e">>,
      <<"n", "u", "l", "l">>,
      <<"{", "\"", "b", "\"", ":", "1", "}">>,
      <<"[", "1", ",", "2", "]">>,
      <<"\"", "s", "\"">>,
      <<"{", "}">>,
      <<"[", "]">>,
      <<"{", "\"", "a", "\"", ":", "{", "\"", "b", "\"", ":", "[", "t", "r", "u", "e", ",", "n", "u", "l", "l", "]", "}", "}">>,
      <<" ", "{", " ", "\"", "a", "\"", " ", ":", " ", "[", " ", "]", " ", "}", " ">>,
      <<"{", "\"", "a", "\"", ":", "1", ",", "\"", "a", "\"", ":", "2", "}">> }

\* The values handed to castValue: the strings, and values that are no
\* strings.
CastValues ==
    {Str(text) : text \in CastStrings}
        \cup {Undefined, Null, Bool(TRUE), Bool(FALSE), EmptyObj, Arr(<<Str(<<"s">>)>>)}

InitCast ==
    /\ castVal \in CastValues
    /\ castType \in DataTypes
    /\ castOut = Undefined
    /\ castPc = "ready"
    /\ OutsideCastIdle

\* castValue(castVal, castType) is called.
CastCall ==
    /\ castPc = "ready"
    /\ castOut' = castValue(castVal, castType)
    /\ castPc' = "done"
    /\ UNCHANGED <<castVal, castType>>
    /\ UNCHANGED outsideCast

NextCast == CastCall

SpecCast == InitCast /\ [][NextCast]_vars

\* castValue was handed a string of the given type, and has returned.
CastDone(type) == castPc = "done" /\ castType = type /\ IsString(castVal)

\* What Number() makes of the strings of CastStrings it takes as numbers,
\* as mantissa and number of decimals; it makes NaN of the others that are
\* not blank.
NumberTable ==
    (<<"1", "2", ".", "5">> :> <<125, 1>>)
    @@ (<<" ", "7", " ">> :> <<7, 0>>)
    @@ (<<"-", "3">> :> <<0 - 3, 0>>)
    @@ (<<"+", "4">> :> <<4, 0>>)
    @@ (<<".", "5">> :> <<5, 1>>)
    @@ (<<"5", ".">> :> <<5, 0>>)
    @@ (<<"0", "1">> :> <<1, 0>>)
    @@ (<<"1">> :> <<1, 0>>)
    @@ (<<" ", "1", " ">> :> <<1, 0>>)
    @@ (<<"0">> :> <<0, 0>>)
    @@ (<<"5">> :> <<5, 0>>)
    @@ (<<"1", ".", "5", "0">> :> <<15, 1>>)

\* What JSON.parse makes of the strings of CastStrings that are JSON texts;
\* it raises SyntaxError for the others.
JsonTable ==
    (<<"t", "r", "u", "e">> :> Bool(TRUE))
    @@ (<<"f", "a", "l", "s", "e">> :> Bool(FALSE))
    @@ (<<"n", "u", "l", "l">> :> Null)
    @@ (<<"1">> :> Num(1, 0))
    @@ (<<" ", "1", " ">> :> Num(1, 0))
    @@ (<<"0">> :> Num(0, 0))
    @@ (<<"5">> :> Num(5, 0))
    @@ (<<"1", "2", ".", "5">> :> Num(125, 1))
    @@ (<<" ", "7", " ">> :> Num(7, 0))
    @@ (<<"-", "3">> :> Num(0 - 3, 0))
    @@ (<<"1", ".", "5", "0">> :> Num(15, 1))
    @@ (<<"{", "\"", "b", "\"", ":", "1", "}">> :> Obj(<<"b">> :> Num(1, 0)))
    @@ (<<"[", "1", ",", "2", "]">> :> Arr(<<Num(1, 0), Num(2, 0)>>))
    @@ (<<"\"", "s", "\"">> :> Str(<<"s">>))
    @@ (<<"{", "}">> :> EmptyObj)
    @@ (<<"[", "]">> :> EmptyArr)
    @@ (<<"{", "\"", "a", "\"", ":", "{", "\"", "b", "\"", ":", "[", "t", "r", "u", "e", ",", "n", "u", "l", "l", "]", "}", "}">> :> Obj(<<"a">> :> Obj(<<"b">> :> Arr(<<Bool(TRUE), Null>>))))
    @@ (<<" ", "{", " ", "\"", "a", "\"", " ", ":", " ", "[", " ", "]", " ", "}", " ">> :> Obj(<<"a">> :> EmptyArr))
    @@ (<<"{", "\"", "a", "\"", ":", "1", ",", "\"", "a", "\"", ":", "2", "}">> :> Obj(<<"a">> :> Num(2, 0)))

(*************************** C12 *******************************************)

\* C12: numeric cast safety: for every string raw, castValue(raw, number)
\* and castValue(raw, array_number) return 0 when the trimmed string is
\* empty or does not parse as a number, and the parsed number otherwise;
\* the result is never NaN and the call never throws.
C12_NumericCast ==
    (CastDone("number") \/ CastDone("array_number")) =>
        /\ castOut.t = "number"
        /\ castOut.v = IF castVal.v \in DOMAIN NumberTable THEN NumberTable[castVal.v]
                       ELSE <<0, 0>>

\* castValue("12.5", number) has returned 12.5.
C12_Witness ==
    /\ CastDone("number")
    /\ castVal = Str(<<"1", "2", ".", "5">>)
    /\ castOut = Num(125, 1)

(*************************** C13 *******************************************)

\* The word true in any case.
IsTrueWord(s) ==
    /\ Len(s) = 4
    /\ s[1] \in {"t", "T"}
    /\ s[2] \in {"r", "R"}
    /\ s[3] \in {"u", "U"}
    /\ s[4] \in {"e", "E"}

\* C13: boolean cast: for every string raw, castValue(raw, boolean) is true
\* exactly when the trimmed string equals "true" ignoring case or is the
\* literal "1", and false for every other string.
C13_BooleanCast ==
    CastDone("boolean") =>
        castOut = Bool(IsTrueWord(Trim(castVal.v)) \/ Trim(castVal.v) = <<"1">>)

\* castValue(" tRuE ", boolean) has returned true.
C13_Witness ==
    /\ CastDone("boolean")
    /\ castVal = Str(<<" ", "t", "R", "u", "E", " ">>)
    /\ castOut = Bool(TRUE)

(*************************** C14 *******************************************)

\* C14: cast failure degrades to the zero value of the type and is never
\* raised: for every string raw, castValue(raw, object) returns {} when
\* the trimmed string is empty or is not valid JSON, castValue(raw,
\* array_object) returns [] in those cases, and otherwise the JSON-parsed
\* value is returned; no input makes castValue throw.
C14_CastFailure ==
    /\ castPc = "done" => castOut \notin {Throw, SyntaxError, NaN}
    /\ CastDone("object") =>
           castOut = IF castVal.v \in DOMAIN JsonTable THEN JsonTable[castVal.v]
                     ELSE EmptyObj
    /\ CastDone("array_object") =>
           castOut = IF castVal.v \in DOMAIN JsonTable THEN JsonTable[castVal.v]
                     ELSE EmptyArr

\* castValue of the truncated JSON text {"b":1 as object has returned {}.
C14_Witness ==
    /\ CastDone("object")
    /\ castVal = Str(<<"{", "\"", "b", "\"", ":", "1">>)
    /\ castOut = EmptyObj

(*************************** the Path Accessor on its own ******************)

KeyA == <<"a">>
KeyB == <<"b">>
KeyC == <<"c">>
KeyX == <<"x">>
KeyZ == <<"z">>

One == Num(1, 0)
Two == Num(2, 0)

\* The objects handed to setDeep: empty; with a, the first key of the
\* paths, holding a string, an empty string, an object with other keys, an
\* array; with k holding an array of objects, of a string, of 0, an object,
\* a string.  Most have a key z that is on no path.
DeepRoots ==
    { EmptyObj,
      Obj((KeyA :> Str(<<"s">>)) @@ (KeyZ :> One)),
      Obj((KeyA :> Str(<<>>)) @@ (KeyZ :> One)),
      Obj((KeyA :> Obj((KeyB :> One) @@ (KeyC :> Two))) @@ (KeyZ :> One)),
      Obj((KeyA :> Obj(KeyB :> Obj(KeyX :> One))) @@ (KeyZ :> One)),
      Obj(KeyA :> Arr(<<One>>)),
      Obj((PathK :> Arr(<<Obj(KeyX :> One), Obj(KeyZ :> Two), Obj(KeyX :> Two)>>)) @@ (KeyZ :> One)),
      Obj(PathK :> Arr(<<Str(<<"s">>)>>)),
      Obj(PathK :> Arr(<<Num(0, 0), Obj(KeyZ :> Two)>>)),
      Obj(PathK :> Obj(KeyX :> One)),
      Obj((PathK :> Str(<<"s">>)) @@ (KeyZ :> One)) }

PathABC == <<"a", ".", "b", ".", "c">>
PathKsXY == <<"k", "[", "]", ".", "x", ".", "y">>
PathAKs == <<"a", ".", "k", "[", "]">>
PathAKsX == <<"a", ".", "k", "[", "]", ".", "x">>

DeepPaths == {PathA, PathAB, PathABC, PathK, PathKs, PathKsX, PathKsXY, PathAKs, PathAKsX, <<>>}

DeepValues ==
    {Num(5, 0), Str(<<"v">>), EmptyArr, Arr(<<One, Two>>), Arr(<<Str(<<"p">>), Str(<<>>), Str(<<"q">>), Str(<<"r">>)>>)}

PathKsZ == <<"k", "[", "]", ".", "z">>

\* The paths of a second call on the same object: array expansions of k.
DeepPathsThen == {PathKsZ, PathKsX, PathKsXY}

InitDeep ==
    /\ deepRoot \in DeepRoots
    /\ deepPath \in DeepPaths
    /\ deepValue \in DeepValues
    /\ deepOut = Undefined
    /\ deepPc = "ready"
    /\ deepThen = [path |-> <<>>, value |-> Undefined, out |-> Undefined]
    /\ OutsideDeepIdle

\* setDeep(deepRoot, deepPath, deepValue) is called.
DeepCall ==
    /\ deepPc = "ready"
    /\ deepOut' = setDeep(deepRoot, deepPath, deepValue)
    /\ deepPc' = "done"
    /\ UNCHANGED <<deepRoot, deepPath, deepValue, deepThen>>
    /\ UNCHANGED outsideDeep

\* setDeep(obj, path, value) is called on the object the first call
\* returned with.
DeepCallThen(path, value) ==
    /\ deepPc = "done"
    /\ deepOut # Throw
    /\ deepThen' = [path |-> path, value |-> value, out |-> setDeep(deepOut, path, value)]
    /\ deepPc' = "again"
    /\ UNCHANGED <<deepRoot, deepPath, deepValue, deepOut>>
    /\ UNCHANGED outsideDeep

NextDeep ==
    \/ DeepCall
    \/ \E path \in DeepPathsThen : \E value \in DeepValues : DeepCallThen(path, value)

SpecDeep == InitDeep /\ [][NextDeep]_vars

\* obj.k1...kn for a sequence of keys, by property reads: Undefined when a
\* property on the way is missing.
RECURSIVE PropAt(_, _)
PropAt(obj, keys) ==
    IF keys = <<>> THEN obj ELSE PropAt(GetProp(obj, Head(keys)), Tail(keys))

\* The properties of before that are not on the path of keys are in after
\* as they were, at every level of the path that before has.
RECURSIVE OffPathKept(_, _, _)
OffPathKept(before, after, keys) ==
    \/ keys = <<>>
    \/ before.t # "object"
    \/ /\ after.t = "object"
       /\ \A k \in DOMAIN before.v \ {Head(keys)} :
              k \in DOMAIN after.v /\ after.v[k] = before.v[k]
       /\ Head(keys) \in DOMAIN before.v =>
              OffPathKept(before.v[Head(keys)], GetProp(after, Head(keys)), Tail(keys))

\* Every proper prefix of the path of keys that before lacks is an object
\* in after.
MissingMadeObjects(before, after, keys) ==
    \A n \in 1..(Len(keys) - 1) :
        PropAt(before, SubSeq(keys, 1, n)) = Undefined =>
            PropAt(after, SubSeq(keys, 1, n)).t = "object"

(*************************** C15 *******************************************)

\* setDeep was called with a path of plain segments.
DonePlain == deepPc = "done" /\ IsPlainPath(deepPath)

\* C15: setDeep on a path of plain dot-separated segments k1...kn writes
\* value at root.k1...kn, creates every missing intermediate as an object,
\* and leaves every key of root that is not on the path unchanged; in
\* particular setDeep({}, "a.b.c", 5) gives {a: {b: {c: 5}}}.
C15_PlainPath ==
    DonePlain =>
        /\ deepOut.t = "object"
        /\ PropAt(deepOut, PathKeys(deepPath)) = deepValue
        /\ MissingMadeObjects(deepRoot, deepOut, PathKeys(deepPath))
        /\ OffPathKept(deepRoot, deepOut, PathKeys(deepPath))
        /\ (deepRoot = EmptyObj /\ deepPath = PathABC /\ deepValue = Num(5, 0)) =>
               deepOut = Obj(KeyA :> Obj(KeyB :> Obj(KeyC :> Num(5, 0))))

\* The same, for the calls that return: C15 fails in no other way than by
\* the TypeError of C1.
C15_PlainPathReturned ==
    (DonePlain /\ deepOut # Throw) =>
        /\ deepOut.t = "object"
        /\ PropAt(deepOut, PathKeys(deepPath)) = deepValue
        /\ MissingMadeObjects(deepRoot, deepOut, PathKeys(deepPath))
        /\ OffPathKept(deepRoot, deepOut, PathKeys(deepPath))
        /\ (deepRoot = EmptyObj /\ deepPath = PathABC /\ deepValue = Num(5, 0)) =>
               deepOut = Obj(KeyA :> Obj(KeyB :> Obj(KeyC :> Num(5, 0))))

(*************************** C16 *******************************************)

\* The value as a list: the list itself, or the one-element list of a value
\* that is no list.
DeepItems == IF IsArray(deepValue) THEN deepValue.v ELSE <<deepValue>>

\* setDeep was called with the path k[].x or k[].x.y: the array segment k[]
\* followed by a remaining path, whose keys RestKeys are.
DoneExpansion == deepPc = "done" /\ deepPath \in {PathKsX, PathKsXY}

RestKeys == Tail(PathKeys(deepPath))

\* C16: setDeep array expansion distributes a parallel list: for a path
\* whose segment k[] is followed by a remaining path rest, and a list value
\* of length n (a value that is no list counts as a one-element list),
\* after the call root.k is an array of length at least n and for every
\* i < n element i is an object in which value[i] has been written at rest.
C16_ArrayExpansion ==
    DoneExpansion =>
        /\ deepOut.t = "object"
        /\ IsArray(GetProp(deepOut, PathK))
        /\ Len(GetProp(deepOut, PathK).v) >= Len(DeepItems)
        /\ \A i \in 1..Len(DeepItems) :
               /\ GetProp(deepOut, PathK).v[i].t = "object"
               /\ PropAt(GetProp(deepOut, PathK).v[i], RestKeys) = DeepItems[i]

\* The same, for the calls that return: C16 fails in no other way than by
\* the TypeError of C1.
C16_ArrayExpansionReturned ==
    (DoneExpansion /\ deepOut # Throw) =>
        /\ deepOut.t = "object"
        /\ IsArray(GetProp(deepOut, PathK))
        /\ Len(GetProp(deepOut, PathK).v) >= Len(DeepItems)
        /\ \A i \in 1..Len(DeepItems) :
               /\ GetProp(deepOut, PathK).v[i].t = "object"
               /\ PropAt(GetProp(deepOut, PathK).v[i], RestKeys) = DeepItems[i]

(*************************** C17 *******************************************)

\* C17: when the array segment k[] is the last segment of the path, setDeep
\* assigns root.k to the value coerced to a list (the list itself, or a
\* one-element list wrapping a value that is no list), replacing whatever
\* root.k held before, an array populated by earlier writes included.
C17_ArrayLast ==
    (deepPc = "done" /\ deepPath = PathKs) =>
        /\ deepOut.t = "object"
        /\ GetProp(deepOut, PathK) = Arr(DeepItems)

\* On a root whose k is an array of three objects, setDeep(root, "k[]", 5)
\* has left k = [5].
C17_Witness ==
    /\ deepPc = "done"
    /\ deepPath = PathKs
    /\ deepValue = Num(5, 0)
    /\ IsArray(GetProp(deepRoot, PathK))
    /\ Len(GetProp(deepRoot, PathK).v) = 3
    /\ GetProp(deepOut, PathK) = Arr(<<Num(5, 0)>>)

(*************************** C18 *******************************************)

\* Mappings j and k of the list, j before k, have the same jsonPath of plain
\* segments and both resolve a raw value for the row.
SamePathPair(j, k) ==
    /\ j < k
    /\ mappings[j].jsonPath = mappings[k].jsonPath
    /\ IsPlainPath(mappings[k].jsonPath)
    /\ ~Absent(CurrentRow, mappings[j])
    /\ ~Absent(CurrentRow, mappings[k])

\* C18: mappings are applied to a fresh empty root in list order, and a
\* write to an exact path that an earlier mapping already wrote wins: the
\* root is empty when the first callback starts; after the callback of a
\* mapping with a jsonPath of plain segments that resolved a raw value,
\* body holds at that path the value the callback wrote; and when two
\* mappings of the list have the same jsonPath of plain segments and both
\* resolve a raw value, the payload returned holds at that path the value
\* produced by the later one (no mapping after it going through the path).
C18_LastWriteWins ==
    /\ (pc = "loop" /\ idx = 1) => body = EmptyObj
    /\ (JustRan /\ pc # "threw" /\ raw # Undefined /\ IsPlainPath(LastMapping.jsonPath)) =>
           PropAt(body, PathKeys(LastMapping.jsonPath)) = written
    /\ pc = "returned" =>
           \A k \in 1..Len(mappings) :
               ((\E j \in 1..Len(mappings) : SamePathPair(j, k)) /\ NotTouchedLater(k)) =>
                   PropAt(body, PathKeys(mappings[k].jsonPath))
                       = ValueToWrite(CurrentRow, mappings[k])

\* A call has returned for two mappings of path a that produce different
\* values, and the payload holds the value of the second.
C18_Witness ==
    /\ pc = "returned"
    /\ Len(mappings) = 2
    /\ SamePathPair(1, 2)
    /\ mappings[2].jsonPath = PathA
    /\ ValueToWrite(CurrentRow, mappings[1]) # written
    /\ GetProp(body, KeyA) = written

(*************************** JobRunner *************************************)

\* Bounds of the job model: the number of rows of a job and the number of
\* invocations of executeJob and retryRow in a behaviour.
JobLen == 2
MaxRuns == 2

\* The invocations of executeJob and retryRow so far are fewer than the
\* bound.
MayInvoke == Len(runs) + Len(retries) < MaxRuns

\* The mapping list of the job: one array_object mapping whose internal
\* keys are x and x.y.  Building the payload raises the TypeError of
\* setDeep for a cell with an item whose second token casts to true.
JobMappings ==
    << Mapping(PathKsX, "array_object", "A", Undefined,
               Transformation(TRUE, <<",">>, <<"*">>, 1),
               <<Field(<<"x">>, 1, "boolean"), Field(<<"x", ".", "y">>, 0, "string")>>) >>

\* The rows a job is made of: the first row of RowTable, for which
\* constructPayload raises with JobMappings, and the second, for which it
\* returns.
JobRowIds == {1, 2}

\* Whether constructPayload raises for each row of JobRowIds.
PayloadRaises == [r \in JobRowIds |-> constructPayload(RowTable[r], JobMappings) = Throw]

\* const body = constructPayload(rowData, mappings) raises.
PayloadThrows(r) == PayloadRaises[r]

\* How a fetch that is not aborted ends: a 2xx response, another response,
\* a transport failure, a transport failure whose message holds "aborted".
Outcomes == {"ok", "http", "network", "networkAborted"}

\* What sendRequest returns for an outcome.
Result(o) ==
    CASE o = "ok"      -> [ok |-> TRUE, status |-> 200, response |-> "body"]
      [] o = "http"    -> [ok |-> FALSE, status |-> 500, response |-> "body"]
      [] o = "network" -> [ok |-> FALSE, status |-> 0, response |-> "message"]
      [] o = "networkAborted" ->
                          [ok |-> FALSE, status |-> 0, response |-> "message aborted"]

\* result.ok === false && result.status === 0 && result.response.includes('aborted')
LooksAborted(result) ==
    ~result.ok /\ result.status = 0 /\ result.response = "message aborted"

\* The log entries of the initial logs.
PendingLog == [status |-> "pending", statusCode |-> 0 - 1, response |-> "none"]

\* The log entry setLogs writes for a result.
ResultLog(result) ==
    [status |-> IF result.ok THEN "success" ELSE "error",
     statusCode |-> result.status, response |-> result.response]

\* An invocation of executeJob at its start, its closure holding logs.
NewRun ==
    [snap |-> [p \in DOMAIN logs |-> logs[p].status], snapData |-> jobData,
     i |-> 0, pc |-> "start",
     sig |-> 0, sent |-> {}, recorded |-> {}, stopped |-> FALSE]

\* The first index from an index on whose log is not success in the
\* closure (if (currentLog.status === 'success') continue), 0 if none.
NextIndex(snap, from) ==
    IF \E p \in from..Len(snap) : snap[p] # "success"
    THEN CHOOSE p \in from..Len(snap) :
             snap[p] # "success" /\ \A q \in from..(p - 1) : snap[q] = "success"
    ELSE 0

\* The body of the loop at index p (0: the loop is over), up to its await:
\* the run returns when the signal of abortControllerRef.current is
\* aborted, the exception of constructPayload leaves executeJob, or the
\* request is issued with that signal.
LoopAt(run, p, ref, aborted) ==
    IF p = 0 THEN [run EXCEPT !.pc = "done"]
    ELSE IF aborted THEN [run EXCEPT !.pc = "done", !.i = p]
    ELSE IF PayloadThrows(run.snapData[p]) THEN [run EXCEPT !.pc = "crashed", !.i = p]
    ELSE [run EXCEPT !.pc = "inflight", !.i = p, !.sig = ref, !.sent = @ \cup {p}]

\* The loop from an index on, up to its next await or its end.
Continue(run, from, ref, aborted) == LoopAt(run, NextIndex(run.snap, from), ref, aborted)

\* isRunning after a run went on: setIsRunning(false) when it returned.
RunningAfter(run, was) == IF run.pc = "done" THEN FALSE ELSE was

InitJob ==
    /\ jobData \in [1..JobLen -> JobRowIds]
    /\ logs = [p \in 1..JobLen |-> PendingLog]
    /\ isRunning = FALSE
    /\ controllers = <<>>
    /\ runs = <<>>
    /\ retries = <<>>
    /\ editingRow = 0
    /\ OutsideJobIdle

\* The Start/Resume button, shown when isRunning is false: executeJob up to
\* its first await.  (The edit modal, while open, covers the buttons.)
Start ==
    /\ ~isRunning
    /\ editingRow = 0
    /\ MayInvoke
    /\ controllers' = Append(controllers, FALSE)
    /\ runs' = Append(runs, Continue(NewRun, 1, Len(controllers) + 1, FALSE))
    /\ isRunning' = RunningAfter(runs'[Len(runs')], TRUE)
    /\ UNCHANGED <<jobData, logs, retries, editingRow>>
    /\ UNCHANGED outsideJob

\* The Stop button, shown when isRunning is true: stopJob.
Stop ==
    /\ isRunning
    /\ editingRow = 0
    /\ controllers' = IF controllers = <<>> THEN controllers
                      ELSE [controllers EXCEPT ![Len(controllers)] = TRUE]
    /\ isRunning' = FALSE
    /\ runs' = [l \in DOMAIN runs |->
                   IF runs[l].pc \in {"inflight", "delay"}
                   THEN [runs[l] EXCEPT !.stopped = TRUE] ELSE runs[l]]
    /\ UNCHANGED <<jobData, logs, retries, editingRow>>
    /\ UNCHANGED outsideJob

\* The fetch of run l ends with outcome o, its signal not being aborted:
\* the loop breaks on a result that looks aborted, else the outcome is
\* recorded and the run waits for the inter-request delay.
Respond(l, o) ==
    /\ runs[l].pc = "inflight"
    /\ ~controllers[runs[l].sig]
    /\ IF LooksAborted(Result(o))
       THEN /\ runs' = [runs EXCEPT ![l].pc = "done"]
            /\ isRunning' = FALSE
            /\ logs' = logs
       ELSE /\ runs' = [runs EXCEPT ![l].pc = "delay", ![l].recorded = @ \cup {runs[l].i}]
            /\ isRunning' = isRunning
            /\ logs' = [logs EXCEPT ![runs[l].i] = ResultLog(Result(o))]
    /\ UNCHANGED <<jobData, controllers, retries, editingRow>>
    /\ UNCHANGED outsideJob

\* The fetch of run l, its signal aborted, rejects with AbortError, which
\* sendRequest throws again and which leaves executeJob.
Rejected(l) ==
    /\ runs[l].pc = "inflight"
    /\ controllers[runs[l].sig]
    /\ runs' = [runs EXCEPT ![l].pc = "aborted"]
    /\ UNCHANGED <<jobData, logs, isRunning, controllers, retries, editingRow>>
    /\ UNCHANGED outsideJob

\* The inter-request delay of run l has elapsed: the loop goes on with the
\* next index.
Timer(l) ==
    /\ runs[l].pc = "delay"
    /\ runs' = [runs EXCEPT ![l] = Continue(runs[l], runs[l].i + 1, Len(controllers),
                                            controllers[Len(controllers)])]
    /\ isRunning' = RunningAfter(runs'[l], isRunning)
    /\ UNCHANGED <<jobData, logs, controllers, retries, editingRow>>
    /\ UNCHANGED outsideJob

\* The log entry retryRow writes before its request.
RetryingLog(log) == [log EXCEPT !.status = "pending", !.response = "Retrying..."]

\* retryRow(index) in a closure that holds isRunning and, for the row, data,
\* up to its await: nothing when isRunning; else the log entry is set to
\* pending and sendRequest(row) is called without a signal, the exception
\* of constructPayload being caught and ignored.
RetryFrom(r, wasRunning, data) ==
    [row |-> r, data |-> data, wasRunning |-> wasRunning,
     pc |-> IF wasRunning THEN "skipped"
            ELSE IF PayloadThrows(data) THEN "raised" ELSE "inflight"]

\* The row actions are shown for a row when isRunning is false and the
\* status of the row is error or pending.
RowActionsShown(r) ==
    /\ ~isRunning
    /\ logs[r].status \in {"error", "pending"}
    /\ editingRow = 0

\* The retry button of row r: retryRow(r) of the current render.
Retry(r) ==
    /\ RowActionsShown(r)
    /\ MayInvoke
    /\ retries' = Append(retries, RetryFrom(r, isRunning, jobData[r]))
    /\ logs' = [logs EXCEPT ![r] = RetryingLog(@)]
    /\ UNCHANGED <<jobData, isRunning, controllers, runs, editingRow>>
    /\ UNCHANGED outsideJob

\* The edit button of row r: setEditingRow.
OpenEdit(r) ==
    /\ RowActionsShown(r)
    /\ editingRow' = r
    /\ UNCHANGED <<jobData, logs, isRunning, controllers, runs, retries>>
    /\ UNCHANGED outsideJob

\* The Cancel and close buttons of the edit modal.
CloseEdit ==
    /\ editingRow # 0
    /\ editingRow' = 0
    /\ UNCHANGED <<jobData, logs, isRunning, controllers, runs, retries>>
    /\ UNCHANGED outsideJob

\* The Save and Save & Retry buttons of the edit modal: handleEditSave.
\* The retry is the retryRow of the render in which the button was
\* pressed, called 100 ms later: its closure holds the isRunning and the
\* logs of that render.
EditSave(newData, shouldRetry) ==
    /\ editingRow # 0
    /\ shouldRetry => MayInvoke
    /\ jobData' = [jobData EXCEPT ![editingRow] = newData]
    /\ logs' = [logs EXCEPT ![editingRow].status = "error"]
    /\ editingRow' = 0
    /\ retries' = IF shouldRetry
                  THEN Append(retries, [row |-> editingRow, data |-> jobData[editingRow],
                                        wasRunning |-> isRunning, pc |-> "timer"])
                  ELSE retries
    /\ UNCHANGED <<isRunning, controllers, runs>>
    /\ UNCHANGED outsideJob

\* The timer of handleEditSave fires: retryRow(idx) of that closure.
RetryTimer(k) ==
    /\ retries[k].pc = "timer"
    /\ retries' = [retries EXCEPT
                       ![k] = RetryFrom(retries[k].row, retries[k].wasRunning, retries[k].data)]
    /\ logs' = IF retries[k].wasRunning THEN logs
               ELSE [logs EXCEPT ![retries[k].row] = RetryingLog(@)]
    /\ UNCHANGED <<jobData, isRunning, controllers, runs, editingRow>>
    /\ UNCHANGED outsideJob

\* The fetch of retry k ends with outcome o: the outcome is recorded.
RetryRespond(k, o) ==
    /\ retries[k].pc = "inflight"
    /\ retries' = [retries EXCEPT ![k].pc = "done"]
    /\ logs' = [logs EXCEPT ![retries[k].row] = ResultLog(Result(o))]
    /\ UNCHANGED <<jobData, isRunning, controllers, runs, editingRow>>
    /\ UNCHANGED outsideJob

\* progress === 100: the list is not empty and no log entry is pending.
ResetShown == logs # <<>> /\ \A p \in DOMAIN logs : logs[p].status # "pending"

\* The Reset button: every log entry becomes pending again.
Reset ==
    /\ ResetShown
    /\ editingRow = 0
    /\ logs' = [p \in DOMAIN logs |-> PendingLog]
    /\ UNCHANGED <<jobData, isRunning, controllers, runs, retries, editingRow>>
    /\ UNCHANGED outsideJob

NextJob ==
    \/ Start
    \/ Stop
    \/ \E l \in DOMAIN runs : \E o \in Outcomes : Respond(l, o)
    \/ \E l \in DOMAIN runs : Rejected(l)
    \/ \E l \in DOMAIN runs : Timer(l)
    \/ \E r \in 1..JobLen : Retry(r)
    \/ \E r \in 1..JobLen : OpenEdit(r)
    \/ CloseEdit
    \/ \E newData \in JobRowIds : \E shouldRetry \in BOOLEAN : EditSave(newData, shouldRetry)
    \/ \E k \in DOMAIN retries : RetryTimer(k)
    \/ \E k \in DOMAIN retries : \E o \in Outcomes : RetryRespond(k, o)
    \/ Reset

SpecJob == InitJob /\ [][NextJob]_vars

(*************************** C19 *******************************************)

\* Run l is over: its loop ended or an exception left executeJob.
RunOver(l) == runs[l].pc \in {"done", "crashed", "aborted"}

NoRunAlive == \A l \in DOMAIN runs : RunOver(l)

\* The indices whose log was not success when run l started.
ToSend(l) == {p \in DOMAIN runs[l].snap : runs[l].snap[p] # "success"}

C19_BatchUnlessRaised ==
    \A l \in DOMAIN runs :
        (/\ runs[l].pc = "done"
         /\ ~runs[l].stopped
         /\ \A p \in ToSend(l) : ~PayloadThrows(runs[l].snapData[p])
         /\ \A p \in runs[l].sent : p \in runs[l].recorded) =>
            /\ ToSend(l) \subseteq runs[l].sent
            /\ ToSend(l) \subseteq runs[l].recorded

(*************************** C20 *******************************************)

\* Run l has a request in flight: issued, not ended and not cancelled.
InFlight(l) == runs[l].pc = "inflight" /\ ~controllers[runs[l].sig]

\* C20: the batch driver sends one row at a time: across any sequence of
\* Start, Stop and Resume actions, at most one request issued by executeJob
\* is in flight at any moment, and the request for the next row is not
\* issued before the outcome of the previous row is recorded and the
\* inter-request delay has elapsed.
C20_OneAtATime ==
    /\ Cardinality({l \in DOMAIN runs : InFlight(l)}) <= 1
    /\ \A l \in DOMAIN runs :
           runs[l].pc = "inflight" => (runs[l].sent \ {runs[l].i}) \subseteq runs[l].recorded

\* Within one run the requests are serialized: each is issued when the
\* outcomes of the requests the run issued before are recorded.
C20_SerializedWithinRun ==
    \A l \in DOMAIN runs :
        runs[l].pc = "inflight" => (runs[l].sent \ {runs[l].i}) \subseteq runs[l].recorded

(*************************** C21 *******************************************)

\* Run l issues a request in a step.
Issues(l) == runs'[l].sent # runs[l].sent

\* C21: cancellation takes effect before the next row starts: after
\* stopJob is invoked during a batch run, the loop of that run issues no
\* request for any further row, whatever the user does afterwards.
C21_StopBeforeNextRow ==
    [][\A l \in DOMAIN runs : runs[l].stopped => ~Issues(l)]_vars

\* The same while abortControllerRef.current is the controller stopJob
\* aborted: a stopped run issues a request only after a later executeJob
\* replaced the controller.
C21_StopUnlessResumed ==
    [][\A l \in DOMAIN runs :
          (runs[l].stopped /\ controllers[Len(controllers)]) => ~Issues(l)]_vars

(*************************** C22 *******************************************)

\* C22: cancellation never interrupts the bookkeeping of the request in
\* flight: when stopJob is invoked while the request of a row is in flight,
\* the request completes and the log entry of the row is updated with its
\* outcome rather than being left pending.
C22_StopKeepsBookkeeping ==
    \A l \in DOMAIN runs :
        (runs[l].stopped /\ RunOver(l)) => runs[l].sent \subseteq runs[l].recorded

(*************************** C23 *******************************************)

\* The outcomes that are transport failures other than a cancellation.
TransportFailures == {"network", "networkAborted"}

\* The request of run l fails with transport failure o and the failure is
\* recorded for its row as error with status code 0 and the message, the
\* loop going on to its inter-request delay and the next row.
RecordedAndGoesOn(l, o) ==
    /\ logs'[runs[l].i] = [status |-> "error", statusCode |-> 0,
                           response |-> Result(o).response]
    /\ runs'[l].pc = "delay"

\* C23: a transport failure does not abort the remaining batch: when the
\* request of a row fails with a network error that is not a user
\* cancellation, whatever its message, the row is recorded as error with
\* status code 0 and the raw transport message as response, and the batch
\* loop goes on to the next row.
C23_TransportFailureGoesOn ==
    [][\A l \in DOMAIN runs : \A o \in TransportFailures :
          Respond(l, o) => RecordedAndGoesOn(l, o)]_vars

\* The same for the transport failures whose message does not hold
\* "aborted".
C23_TransportFailureUnlessAbortedWord ==
    [][\A l \in DOMAIN runs :
          Respond(l, "network") => RecordedAndGoesOn(l, "network")]_vars

(*************************** C24 *******************************************)

\* retryRow of retry k is invoked in a step: by the retry button or by the
\* timer of handleEditSave.
RetryInvoked(k) ==
    /\ retries'[k].pc # "timer"
    /\ k \in DOMAIN retries => retries[k].pc = "timer"

\* The log entries and the data of the rows other than r are unchanged in a
\* step.
OtherRowsKept(r) ==
    /\ \A p \in DOMAIN logs \ {r} : logs'[p] = logs[p]
    /\ \A p \in DOMAIN jobData \ {r} : jobData'[p] = jobData[p]

\* What the invocation of retry k does according to the claim: nothing
\* while a batch is running; else one request built from the current data
\* of its row, the log entry of the row pending and no other row changed.
RetryAsClaimed(k) ==
    IF isRunning
    THEN retries'[k].pc = "skipped" /\ logs' = logs /\ jobData' = jobData
    ELSE /\ retries'[k].pc = "inflight"
         /\ retries'[k].data = jobData[retries'[k].row]
         /\ logs'[retries'[k].row].status = "pending"
         /\ OtherRowsKept(retries'[k].row)

\* The request of retry k ends in a step and the outcome is written to the
\* log entry of its row only.
RetryRecordedAsClaimed(k) ==
    /\ logs'[retries[k].row].status \in {"success", "error"}
    /\ OtherRowsKept(retries[k].row)

\* C24: single-row retry bypasses the batch loop and touches only its row:
\* retryRow(i), invoked while no batch is running, issues exactly one
\* request built from the current data of row i and changes only log entry
\* i (to pending, then to success or error), the status, data and response
\* of every other row being unchanged; invoked while a batch is running it
\* does nothing.
C24_RetryTouchesOnlyItsRow ==
    [][/\ \A k \in DOMAIN retries' : RetryInvoked(k) => RetryAsClaimed(k)
       /\ \A k \in DOMAIN retries : \A o \in Outcomes :
              RetryRespond(k, o) => RetryRecordedAsClaimed(k)]_vars

\* The same for the retry button of a row whose payload builds, and the
\* frame of every retry: no retry changes the log entry or the data of
\* another row.
C24_RetryButtonAsClaimed ==
    [][/\ \A r \in 1..JobLen :
              (Retry(r) /\ ~PayloadThrows(jobData[r])) => RetryAsClaimed(Len(retries'))
       /\ \A k \in DOMAIN retries' : RetryInvoked(k) => OtherRowsKept(retries'[k].row)
       /\ \A k \in DOMAIN retries : \A o \in Outcomes :
              RetryRespond(k, o) => RetryRecordedAsClaimed(k)]_vars

\* The part of C24 about the data, for the retry of handleEditSave: the
\* request is built from the data of the row as it is after the edit.
C24_EditRetryUsesEditedData ==
    [][\A k \in DOMAIN retries :
          (RetryTimer(k) /\ retries'[k].pc = "inflight") =>
              retries'[k].data = jobData[retries[k].row]]_vars

(*************************** C28 *******************************************)

\* The requests for row r in flight: those of the batch runs and those of
\* the retries.
RequestsInFlight(r) ==
    Cardinality({l \in DOMAIN runs : InFlight(l) /\ runs[l].i = r})
    + Cardinality({k \in DOMAIN retries : retries[k].pc = "inflight" /\ retries[k].row = r})

\* C28: no row ever has two requests in flight at once: over any
\* interleaving of Start, Stop, Resume, single-row retry and edit-and-retry
\* actions, a request for row i is never issued while an earlier request
\* for row i has not yet completed.
C28_OneRequestPerRow == \A r \in 1..JobLen : RequestsInFlight(r) <= 1

\* The same for the requests of one batch run.
C28_OneRequestPerRowAndRun ==
    \A l \in DOMAIN runs : \A r \in runs[l].sent \ {runs[l].i} : r \in runs[l].recorded

(*************************** C29 *******************************************)

\* A batch run issues a request for row r in a step.
RunIssuesFor(r) ==
    \E l \in DOMAIN runs' :
        /\ runs'[l].pc = "inflight"
        /\ runs'[l].i = r
        /\ l \in DOMAIN runs => (runs[l].pc # "inflight" \/ runs[l].i # r)

\* A retry issues a request for row r in a step.
RetryIssuesFor(r) ==
    \E k \in DOMAIN retries' :
        /\ retries'[k].pc = "inflight"
        /\ retries'[k].row = r
        /\ k \in DOMAIN retries => retries[k].pc # "inflight"

\* C29: a row that has succeeded is not sent again: once the log entry of
\* row i has status success, neither a batch run (Start/Resume) nor the row
\* actions issue another request for row i until the user resets the logs,
\* and Reset is only offered when no row is pending.
C29_SucceededNotSentAgain ==
    [][/\ \A r \in 1..JobLen :
              logs[r].status = "success" => ~(RunIssuesFor(r) \/ RetryIssuesFor(r))
       /\ Reset => \A p \in DOMAIN logs : logs[p].status # "pending"]_vars

\* The same for the requests issued in the step of a click (Start/Resume,
\* the retry button), and for Reset: a request for a succeeded row is only
\* issued after an await or a timer, from the logs of a closure.
C29_SucceededNotSentAtClick ==
    [][/\ \A r \in 1..JobLen :
              logs[r].status = "success" =>
                  ~((Retry(r) /\ RetryIssuesFor(r)) \/ (Start /\ RunIssuesFor(r)))
       /\ Reset => \A p \in DOMAIN logs : logs[p].status # "pending"]_vars

(*************************** C26 *******************************************)

\* The value of the second call as a list.
DeepItemsThen == IF IsArray(deepThen.value) THEN deepThen.value.v ELSE <<deepThen.value>>

\* setDeep was called with the path k[].x on an object without k, and then
\* with the path k[].z on the same object.
DoneSharedPrefix ==
    /\ deepPc = "again"
    /\ deepPath = PathKsX
    /\ deepThen.path = PathKsZ
    /\ GetProp(deepRoot, PathK) = Undefined

LongerOf(n, m) == IF n >= m THEN n ELSE m

\* C26: mappings that share an array prefix extend the same array in place:
\* after applying a mapping k[].p with n values and then a mapping k[].q
\* with m values, root.k has max(n, m) elements, element i holds p for every
\* i < n and q for every i < m, and no property written by the first
\* mapping is lost.
C26_SharedArrayPrefix ==
    DoneSharedPrefix =>
        /\ deepThen.out.t = "object"
        /\ IsArray(GetProp(deepThen.out, PathK))
        /\ Len(GetProp(deepThen.out, PathK).v) = LongerOf(Len(DeepItems), Len(DeepItemsThen))
        /\ \A i \in 1..Len(DeepItems) :
               GetProp(GetProp(deepThen.out, PathK).v[i], KeyX) = DeepItems[i]
        /\ \A i \in 1..Len(DeepItemsThen) :
               GetProp(GetProp(deepThen.out, PathK).v[i], KeyZ) = DeepItemsThen[i]

\* After k[].x with two values and k[].z with four on an empty object, k
\* has four elements, the first holding x and z, the last z only.
C26_Witness ==
    /\ DoneSharedPrefix
    /\ deepRoot = EmptyObj
    /\ Len(DeepItems) = 2
    /\ Len(DeepItemsThen) = 4
    /\ Len(GetProp(deepThen.out, PathK).v) = 4
    /\ GetProp(deepThen.out, PathK).v[1] = Obj((KeyX :> One) @@ (KeyZ :> Str(<<"p">>)))
    /\ GetProp(deepThen.out, PathK).v[4] = Obj(KeyZ :> Str(<<"r">>))

(*************************** C27 *******************************************)

C27_InputsReadAreStrings == raw.t \in {"undefined", "string"}

(*************************** App and DataMapper ****************************)

\* Bounds of the wizard model: the rows of parsedRows, the length to which
\* addMappingField grows the mapping list, the calls of parseCurlWithGemini
\* awaited at once.
MaxAppRows == 2
MaxAppMappings == 2
MaxParsing == 1

\* inferType(value).
inferType(value) ==
    IF IsArray(value)
    THEN IF value.v # <<>> /\ value.v[1].t = "number" THEN "array_number"
         ELSE IF value.v # <<>> /\ IsObjectType(value.v[1]) THEN "array_object"
         ELSE "array_string"
    ELSE IF value.t \in {"number", "NaN"} THEN "number"
    ELSE IF value.t = "boolean" THEN "boolean"
    ELSE IF IsObjectType(value) THEN "object"
    ELSE "string"

\* The order in which for (const key in obj) visits the keys of the
\* templates: the order in which they were written.
KeyOrder == <<KeyA, KeyB, KeyC>>

ForInKeys(obj) == SelectSeq(KeyOrder, LAMBDA key : key \in DOMAIN obj.v)

\* flattenObjectKeys(obj): for each key of obj its name as path and the
\* type inferred for its value.
flattenObjectKeys(obj) ==
    [n \in 1..Len(ForInKeys(obj)) |->
        [path |-> ForInKeys(obj)[n], type |-> inferType(obj.v[ForInKeys(obj)[n]])]]

\* The mapping DataMapper makes of a flat key.
SeedMapping(k) == Mapping(k.path, k.type, "", Str(<<>>), NoTransformation, <<>>)

\* The initial mappings of a DataMapper: initialMappings when not empty,
\* else one per flat key of apiConfig.bodyTemplate || {}.
InitialMappings(config, initialMappings) ==
    IF initialMappings # <<>> THEN initialMappings
    ELSE [n \in 1..Len(flattenObjectKeys(config.v.bodyTemplate)) |->
              SeedMapping(flattenObjectKeys(config.v.bodyTemplate)[n])]

\* The body templates parseCurlWithGemini returns: empty, flat, nested,
\* with arrays and null.
Templates ==
    { EmptyObj,
      Obj((KeyA :> One) @@ (KeyB :> Str(<<"x">>))),
      Obj(KeyA :> Obj((KeyB :> One) @@ (KeyC :> Str(<<"x">>)))),
      Obj((KeyA :> Arr(<<One>>)) @@ (KeyB :> EmptyArr) @@ (KeyC :> Null)),
      Obj((KeyA :> Arr(<<Obj(KeyX :> One)>>)) @@ (KeyB :> Bool(TRUE))) }

\* The ApiConfig objects, by their bodyTemplate.
Configs == {Obj([bodyTemplate |-> t]) : t \in Templates}

\* The row lists of the wizard: the rows are not told apart.
AppRowLists == SeqsUpTo({1}, MaxAppRows)

\* The mapping addMappingField appends.
NewField ==
    Mapping(<<"n", "e", "w", "F", "i", "e", "l", "d">>, "string", "", Str(<<>>),
            NoTransformation, <<>>)

\* A faulty variant of the next definition, which lets every step be
\* navigated to.
canNavigateAnywhere(targetStep) == TRUE

\* canNavigateTo(targetStep).
canNavigateTo(targetStep) ==
    CASE targetStep = "CONFIGURE"  -> TRUE
      [] targetStep = "DATA_ENTRY" -> Truthy(apiConfig)
      [] targetStep = "EXECUTE"    -> Truthy(apiConfig) /\ bulkData # <<>>
      [] OTHER -> FALSE

\* The state of the DataMapper after setStep(target) with config as
\* apiConfig: it is mounted on entering DATA_ENTRY with a config, kept
\* while the step stays DATA_ENTRY, and gone otherwise.
MapperAfter(target, config) ==
    IF target = "DATA_ENTRY" /\ Truthy(config)
    THEN IF step = "DATA_ENTRY" /\ Truthy(apiConfig)
         THEN UNCHANGED <<parsedRows, mapperMappings>>
         ELSE /\ parsedRows' = bulkData
              /\ mapperMappings' = InitialMappings(config, appMappings)
    ELSE /\ parsedRows' = <<>>
         /\ mapperMappings' = <<>>

InitApp ==
    /\ step = "CONFIGURE"
    /\ apiConfig = Null
    /\ bulkData = <<>>
    /\ appMappings = <<>>
    /\ parsedRows = <<>>
    /\ mapperMappings = <<>>
    /\ parsing = 0
    /\ OutsideAppIdle

\* The parse button of the CurlImporter: handleParse up to its await.
Parse ==
    /\ step = "CONFIGURE"
    /\ parsing < MaxParsing
    /\ parsing' = parsing + 1
    /\ UNCHANGED <<step, apiConfig, bulkData, appMappings, parsedRows, mapperMappings>>
    /\ UNCHANGED outsideApp

\* parseCurlWithGemini returns config: handleConfigParsed.
ConfigParsed(config) ==
    /\ parsing > 0
    /\ parsing' = parsing - 1
    /\ apiConfig' = config
    /\ step' = "DATA_ENTRY"
    /\ MapperAfter("DATA_ENTRY", config)
    /\ UNCHANGED <<bulkData, appMappings>>
    /\ UNCHANGED outsideApp

\* parseCurlWithGemini raises: the error is shown.
ParseFailed ==
    /\ parsing > 0
    /\ parsing' = parsing - 1
    /\ UNCHANGED <<step, apiConfig, bulkData, appMappings, parsedRows, mapperMappings>>
    /\ UNCHANGED outsideApp

\* The DataMapper is rendered.
MapperShown == step = "DATA_ENTRY" /\ Truthy(apiConfig)

\* A file with rows is read: handleFileUpload.
Upload(data) ==
    /\ MapperShown
    /\ data # <<>>
    /\ parsedRows' = data
    /\ UNCHANGED <<step, apiConfig, bulkData, appMappings, mapperMappings, parsing>>
    /\ UNCHANGED outsideApp

\* clearData, confirmed.
ClearData ==
    /\ MapperShown
    /\ parsedRows # <<>>
    /\ parsedRows' = <<>>
    /\ UNCHANGED <<step, apiConfig, bulkData, appMappings, mapperMappings, parsing>>
    /\ UNCHANGED outsideApp

\* removeRow(indexToRemove).
RemoveRow(n) ==
    /\ MapperShown
    /\ n \in DOMAIN parsedRows
    /\ parsedRows' = SubSeq(parsedRows, 1, n - 1) \o SubSeq(parsedRows, n + 1, Len(parsedRows))
    /\ UNCHANGED <<step, apiConfig, bulkData, appMappings, mapperMappings, parsing>>
    /\ UNCHANGED outsideApp

\* addMappingField.
AddMappingField ==
    /\ MapperShown
    /\ Len(mapperMappings) < MaxAppMappings
    /\ mapperMappings' = Append(mapperMappings, NewField)
    /\ UNCHANGED <<step, apiConfig, bulkData, appMappings, parsedRows, parsing>>
    /\ UNCHANGED outsideApp

\* removeMappingField of the mapping at position n.
RemoveMappingField(n) ==
    /\ MapperShown
    /\ n \in DOMAIN mapperMappings
    /\ mapperMappings' = SubSeq(mapperMappings, 1, n - 1)
                             \o SubSeq(mapperMappings, n + 1, Len(mapperMappings))
    /\ UNCHANGED <<step, apiConfig, bulkData, appMappings, parsedRows, parsing>>
    /\ UNCHANGED outsideApp

\* The next button of the DataMapper, disabled when parsedRows or mappings
\* is empty: onNext(parsedRows, mappings), that is handleDataReady.
DataReady ==
    /\ MapperShown
    /\ parsedRows # <<>>
    /\ mapperMappings # <<>>
    /\ bulkData' = parsedRows
    /\ appMappings' = mapperMappings
    /\ step' = "EXECUTE"
    /\ MapperAfter("EXECUTE", apiConfig)
    /\ UNCHANGED <<apiConfig, parsing>>
    /\ UNCHANGED outsideApp

\* The back button of the DataMapper.
MapperBack ==
    /\ MapperShown
    /\ step' = "CONFIGURE"
    /\ MapperAfter("CONFIGURE", apiConfig)
    /\ UNCHANGED <<apiConfig, bulkData, appMappings, parsing>>
    /\ UNCHANGED outsideApp

\* The back button of the JobRunner.
RunnerBack ==
    /\ step = "EXECUTE"
    /\ Truthy(apiConfig)
    /\ step' = "DATA_ENTRY"
    /\ MapperAfter("DATA_ENTRY", apiConfig)
    /\ UNCHANGED <<apiConfig, bulkData, appMappings, parsing>>
    /\ UNCHANGED outsideApp

\* A click on the StepIndicator of targetStep, clickable when enabled and
\* not active.
StepClick(targetStep) ==
    /\ targetStep # step
    /\ canNavigateTo(targetStep)
    /\ step' = targetStep
    /\ MapperAfter(targetStep, apiConfig)
    /\ UNCHANGED <<apiConfig, bulkData, appMappings, parsing>>
    /\ UNCHANGED outsideApp

NextApp ==
    \/ Parse
    \/ \E config \in Configs : ConfigParsed(config)
    \/ ParseFailed
    \/ \E data \in AppRowLists : Upload(data)
    \/ ClearData
    \/ \E n \in DOMAIN parsedRows : RemoveRow(n)
    \/ AddMappingField
    \/ \E n \in DOMAIN mapperMappings : RemoveMappingField(n)
    \/ DataReady
    \/ MapperBack
    \/ RunnerBack
    \/ \E targetStep \in {"CONFIGURE", "DATA_ENTRY", "EXECUTE"} : StepClick(targetStep)

SpecApp == InitApp /\ [][NextApp]_vars

(*************************** C25 *******************************************)

\* The leaf paths of a template with the type of each leaf: the keys of a
\* nested object are leaves of their own, under the dotted path that leads
\* to them; any other value is a leaf.
RECURSIVE LeafPaths(_, _)
LeafPaths(obj, prefix) ==
    UNION { IF obj.v[key].t = "object"
            THEN LeafPaths(obj.v[key], prefix \o key \o <<".">>)
            ELSE {[path |-> prefix \o key, type |-> inferType(obj.v[key])]}
            : key \in DOMAIN obj.v }

\* The paths and types of a mapping list.
PathsAndTypes(list) ==
    {[path |-> list[n].jsonPath, type |-> list[n].dataType] : n \in DOMAIN list}

\* A DataMapper is mounted in a step, without mappings committed before:
\* its mapping list is derived from the bodyTemplate.
MapperSeeded == step # "DATA_ENTRY" /\ step' = "DATA_ENTRY" /\ appMappings = <<>>

\* C25: the initial FieldMapping list derived from a bodyTemplate has
\* exactly one mapping per leaf path of the template: nested objects are
\* flattened into dotted paths, so a template {a: {b: 1, c: "x"}} seeds
\* mappings for a.b and a.c, each with the type inferred for its leaf.
C25_OneMappingPerLeaf ==
    [][MapperSeeded =>
          /\ PathsAndTypes(mapperMappings') = LeafPaths(apiConfig'.v.bodyTemplate, <<>>)
          /\ Len(mapperMappings') = Cardinality(LeafPaths(apiConfig'.v.bodyTemplate, <<>>))]_vars

\* What the code does: one mapping per key of the template itself, with
\* the type inferred for the value of the key, an object for a nested one.
C25_OneMappingPerTopLevelKey ==
    [][MapperSeeded =>
          /\ Len(mapperMappings') = Cardinality(DOMAIN apiConfig'.v.bodyTemplate.v)
          /\ \A key \in DOMAIN apiConfig'.v.bodyTemplate.v :
                 \E n \in DOMAIN mapperMappings' :
                     /\ mapperMappings'[n].jsonPath = key
                     /\ mapperMappings'[n].dataType =
                            inferType(apiConfig'.v.bodyTemplate.v[key])]_vars

\* C25 for the templates none of whose values is a nested object.
C25_OneMappingPerLeafWhenFlat ==
    [][(MapperSeeded /\ \A key \in DOMAIN apiConfig'.v.bodyTemplate.v :
                            apiConfig'.v.bodyTemplate.v[key].t # "object") =>
          /\ PathsAndTypes(mapperMappings') = LeafPaths(apiConfig'.v.bodyTemplate, <<>>)
          /\ Len(mapperMappings') = Cardinality(LeafPaths(apiConfig'.v.bodyTemplate, <<>>))]_vars

(*************************** C30 *******************************************)

\* C30: wizard invariant: in every reachable state of the App, the step is
\* DATA_ENTRY or EXECUTE only if apiConfig is set, and the step is EXECUTE
\* only if the committed row list is not empty: no sequence of parse, next,
\* back and step-indicator clicks reaches the execute step without a parsed
\* configuration and at least one row.
C30_WizardInvariant ==
    /\ step \in {"DATA_ENTRY", "EXECUTE"} => apiConfig \in Configs
    /\ step = "EXECUTE" => bulkData # <<>>

\* The execute step is reached with two committed rows, and the
\* configuration step again with the rows and the configuration kept.
C30_Witness ==
    /\ step = "CONFIGURE"
    /\ apiConfig \in Configs
    /\ Len(bulkData) = 2
    /\ appMappings # <<>>
    /\ canNavigateTo("EXECUTE")

====
